---- MODULE Spec2Model ----
(***************************************************************************)
(* Task orchestration and workflow execution engine of Multi_AI_Agents:    *)
(* BaseAgent.process_task (backend/agents/base_agent.py) and               *)
(* AgentOrchestrator (backend/services/orchestrator.py).                   *)
(*                                                                         *)
(* The program runs on one asyncio event loop (cooperative scheduling).    *)
(* Every action below is one scheduling step of one coroutine: the code    *)
(* that runs from one suspension point to the next.  The suspension points *)
(* are: the agent's execute_task (the completion-service call), an empty   *)
(* task_queue.get(), a locked semaphore, asyncio.sleep in the dependency   *)
(* poll, and the closing of an agent's open client session inside          *)
(* AgentOrchestrator.cleanup, which suspends the call or returns at once.  *)
(* An agent whose client session was closed                                *)
(* does not suspend: its completion calls fail at once and process_task    *)
(* runs to its return in the step.  No entry point of the orchestrator     *)
(* guards against being called again: initialize, cleanup and              *)
(* execute_workflow can each be called while earlier calls of theirs are   *)
(* suspended.                                                              *)
(*                                                                         *)
(* Texts (response, result, error) are sequences of word tokens, so that   *)
(* "contains" and "case-insensitive" are computed.  Confidences are        *)
(* integers in millionths (0.5 is 500000).  Wall-clock fields (updated_at, *)
(* execution_time, timestamps) are left out: nothing branches on them.     *)
(***************************************************************************)
EXTENDS Integers, Sequences, FiniteSets, TLC

\* ---------------------------------------------------------------- bounds
\* externally submitted tasks (queued, direct, or straight to an agent)
MaxTasks == 3
\* the concurrency ceiling the orchestrator is constructed with
\* (max_concurrent_tasks = Config.MAX_AGENTS, a configuration value)
MaxConcurrentTasks == 1
\* calls of initialize: each one registers a batch of agents and schedules
\* a dispatcher coroutine
MaxInitialize == 2
\* direct execute_task calls made while a workflow executes
MaxSideTasks == 2

\* length of the list of types a collaborative workflow is requested with
MaxRequested == 4

\* the numbers of sources and of key findings a research result is tried with
\* (the code caps both at 5)
MaxFindings == 6

\* ------------------------------------------------------- program constants
\* _create_default_agents: "for i in range(2)" per capability type
AgentsPerType == 2
\* "response.confidence > 0.5", in millionths
ConfidenceThreshold == 500000

\* schemas.AgentType (the enum's values, in declaration order)
AgentType == <<"research", "analyst", "coding", "document">>

AgentTypes == {AgentType[i] : i \in 1..Len(AgentType)}

\* capability type the orchestrator's callers submit tasks for
SubmittedTypes == {"research"}

\* capability types of the agents called, and of the tasks submitted beside them
MixedTypes == {"research", "analyst"}

\* schemas.TaskStatus
TaskStatus == {"pending", "running", "completed", "failed", "cancelled"}

Terminal == {"completed", "failed", "cancelled"}

\* Python None for an Optional[str]; every text of the model is a nonempty
\* token sequence, so the empty sequence is free to stand for None
None == << >>

\* confidences an agent's execute_task is tried with (millionths)
Confidences == {0, 500000, 500001, 1000000}

\* str(e) of the exceptions an agent's execute_task is tried with
Errors == {<<"timeout">>}

\* what the awaited execute_task of an agent does when it resumes: it returns
\* a response (no error) or raises
Outcomes == [kind : {"ok"}, confidence : Confidences, error : {None}]
              \cup [kind : {"raise"}, confidence : {0}, error : Errors]

\* execute_task raising an exception whose str() is e
Raises(e) == [kind |-> "raise", confidence |-> 0, error |-> e]

\* how an agent's execute_task takes a completion call that failed
\* (generate_completion returns success False, it never raises): the
\* repository's agents replace the missing content by a default and go on;
\* an agent written to raise on it is caught by process_task
Handling == {"defaults", "raises"}

\* process_task itself does not look at the confidence: straight calls of it
\* are tried with one returning and one raising execute_task
AgentCallOutcomes == {o \in Outcomes : o.kind = "raise" \/ o.confidence = 1000000}

\* the outcome of the agents whose tasks only keep them busy
SideOutcomes == {o \in Outcomes : o.kind = "ok" /\ o.confidence = 1000000}

\* a raise, a response of no confidence and one of full confidence
WfOutcomes == {o \in Outcomes : o.kind = "raise" \/ o.confidence \in {0, 1000000}}

\* agent identities: (capability type, creation index within the type)
AgentIds == AgentTypes \X (1..(AgentsPerType * MaxInitialize))

VARIABLES
  \* AgentOrchestrator fields
  agent_types,          \* capability type -> sequence of agent ids (bucket)
  is_initialized,
  max_concurrent_tasks,
  semaphore,            \* value of asyncio.Semaphore
  task_queue,           \* asyncio.Queue: sequence of task ids
  active_tasks,         \* keys of the active_tasks dict
  completed_tasks,      \* list of task ids
  \* BaseAgent fields, per registered agent
  is_busy,
  task_history,
  session,              \* groq_client.session: "none", "open", "closed"
  \* AgentTask objects, by id
  tasks,
  \* coroutine positions
  dispatcher,           \* the _process_task_queue coroutines, in the order they
                        \* were scheduled: pc "start", "get", "woken", "acquire",
                        \* "granted", "exec", and the task each one holds
  getters,              \* task_queue._getters: dispatchers suspended in get()
  waiters,              \* semaphore._waiters: dispatchers in acquire()
  inflight,             \* task id -> frame of a process_task suspended in execute_task
  cleanups,             \* the cleanup calls suspended in an agent's cleanup
  \* what the calls handed back to their callers
  returned,             \* the call the last step returned from: its task and AgentResponse
  via,                  \* task id -> the entry point the task was submitted through
  \* the execute_workflow calls, in the order they were made: each variable
  \* is a sequence with one entry per call
  workflow,             \* the Workflow's steps
  wf_pc,                \* "waiting", "step", "summary", "returned"
  wf_i,                 \* index of the step being executed
  context,
  results,
  wf_record             \* the returned record

vars == <<agent_types, is_initialized, max_concurrent_tasks, semaphore, task_queue,
          active_tasks, completed_tasks, is_busy, task_history, session, tasks,
          dispatcher, getters, waiters, inflight, cleanups, returned, via,
          workflow, wf_pc, wf_i, context, results, wf_record>>

\* no call has returned
NoReturn == [task |-> 0, resp |-> [x \in {} |-> 0]]

\* the whole state as one record, so that sequential code composes; a step
\* starts with no call returned.  "handling" is no field of the program: it
\* says which kind of execute_task the agents of the step have
Cur == [agent_types |-> agent_types, is_initialized |-> is_initialized,
        max_concurrent_tasks |-> max_concurrent_tasks, semaphore |-> semaphore,
        task_queue |-> task_queue, active_tasks |-> active_tasks,
        completed_tasks |-> completed_tasks, is_busy |-> is_busy,
        task_history |-> task_history, session |-> session, tasks |-> tasks,
        dispatcher |-> dispatcher, getters |-> getters, waiters |-> waiters,
        inflight |-> inflight, cleanups |-> cleanups, returned |-> NoReturn,
        via |-> via, workflow |-> workflow, wf_pc |-> wf_pc, wf_i |-> wf_i,
        context |-> context, results |-> results, wf_record |-> wf_record,
        handling |-> "defaults"]

\* the agents whose client session has been closed
Closed(s) == {a \in DOMAIN s.session : s.session[a] = "closed"}

\* the handlings that make a difference in the state: completion calls fail
\* without an answer only on a closed session
Handlings == IF Closed(Cur) = {} THEN {"defaults"} ELSE Handling

\* the state, with agents that take failed completion calls as h says
On(h) == [Cur EXCEPT !.handling = h]

\* every variable takes its value in s; s is computed once
Become(s) ==
  \E n \in {s} :
    /\ agent_types' = n.agent_types
    /\ is_initialized' = n.is_initialized
    /\ max_concurrent_tasks' = n.max_concurrent_tasks
    /\ semaphore' = n.semaphore
    /\ task_queue' = n.task_queue
    /\ active_tasks' = n.active_tasks
    /\ completed_tasks' = n.completed_tasks
    /\ is_busy' = n.is_busy
    /\ task_history' = n.task_history
    /\ session' = n.session
    /\ tasks' = n.tasks
    /\ dispatcher' = n.dispatcher
    /\ getters' = n.getters
    /\ waiters' = n.waiters
    /\ inflight' = n.inflight
    /\ cleanups' = n.cleanups
    /\ returned' = n.returned
    /\ via' = n.via
    /\ workflow' = n.workflow
    /\ wf_pc' = n.wf_pc
    /\ wf_i' = n.wf_i
    /\ context' = n.context
    /\ results' = n.results
    /\ wf_record' = n.wf_record

\* f with key k set to v (a dict assignment d[k] = v)
Put(f, k, v) == [x \in (DOMAIN f) \cup {k} |-> IF x = k THEN v ELSE f[x]]

\* f without key k (del d[k])
Del(f, k) == [x \in (DOMAIN f) \ {k} |-> f[x]]

EmptyMap == [x \in {} |-> 0]

\* ------------------------------------------------------------------ texts
\* str.lower() on a token: every token of the model that has an upper-case
\* letter is listed with its lower-case form; the model's other tokens have
\* none and are their own lower-case form
Lower(tok) ==
  CASE tok = "No" -> "no"
    [] tok = "Agent" -> "agent"
    [] tok = "Task" -> "task"
    [] tok = "Error" -> "error"
    [] tok = "Error:" -> "error:"
    [] tok = "Connection" -> "connection"
    [] tok = "Analysis" -> "analysis"
    [] tok = "Code" -> "code"
    [] tok = "Document" -> "document"
    [] tok = "Content" -> "content"
    [] tok = "Research" -> "research"
    [] tok = "Coding" -> "coding"
    [] tok = "Workflow" -> "workflow"
    [] tok = "AgentResponse" -> "agentresponse"
    [] tok = "Input" -> "input"
    [] tok = "For" -> "for"
    [] tok = "R" -> "r"
    [] tok = "A" -> "a"
    [] tok = "B" -> "b"
    [] tok = "X" -> "x"
    [] tok = "A:" -> "a:"
    [] tok = "C:" -> "c:"
    [] tok = "D:" -> "d:"
    [] tok = "AgentType.RESEARCH" -> "agenttype.research"
    [] tok = "AgentType.ANALYST" -> "agenttype.analyst"
    [] tok = "AgentType.CODING" -> "agenttype.coding"
    [] tok = "AgentType.DOCUMENT" -> "agenttype.document"
    [] OTHER -> tok

LowerText(text) == [i \in 1..Len(text) |-> Lower(text[i])]

\* needle in haystack (Python's "in" on str, token-wise)
Contains(haystack, needle) ==
  \E i \in 0..(Len(haystack) - Len(needle)) :
     \A j \in 1..Len(needle) : haystack[i + j] = needle[j]

\* format() of an AgentType member in an f-string: AgentType mixes str into
\* Enum, and from Python 3.11 on such a member is formatted as Enum does it,
\* by class and member name (interpreters up to 3.10 print the value)
FormatAgentType(agent_type) ==
  CASE agent_type = "research" -> "AgentType.RESEARCH"
    [] agent_type = "analyst" -> "AgentType.ANALYST"
    [] agent_type = "coding" -> "AgentType.CODING"
    [] agent_type = "document" -> "AgentType.DOCUMENT"

\* f"No available {task.agent_type} agent"
NoAvailableText(agent_type) ==
  <<"No", "available", FormatAgentType(agent_type), "agent">>

BusyText == <<"Agent", "is", "currently", "busy", "with", "another", "task">>

\* f"Task failed: {str(e)}"
TaskFailedText(e) == <<"Task", "failed:">> \o e

\* f"Error occurred: {str(e)}"
ErrorOccurredText(e) == <<"Error", "occurred:">> \o e

\* ------------------------------------------------------- schemas.AgentTask
NewTask(agent_type, ctx) ==
  [agent_type |-> agent_type, context |-> ctx, status |-> "pending",
   result |-> None, error |-> None]

\* str(uuid.uuid4()): an id no task has yet
FreshId(s) == Cardinality(DOMAIN s.tasks) + 1

\* --------------------------------------------------- schemas.AgentResponse
Response(agent_id, agent_type, response, confidence, reasoning, metadata) ==
  [agent_id |-> agent_id, agent_type |-> agent_type, response |-> response,
   confidence |-> confidence, reasoning |-> reasoning, metadata |-> metadata]


\* ------------------------------------------------- the stub completion service
\* step identities of the workflows tried ("X" names no step of any of them),
\* and the phases of a collaborative workflow
StepIds == <<"A", "B", "X", "research_phase", "analysis_phase", "coding_phase",
             "documentation_phase">>

Tag(agent_type) ==
  CASE agent_type = "research" -> "R"
    [] agent_type = "analyst" -> "A:"
    [] agent_type = "coding" -> "C:"
    [] agent_type = "document" -> "D:"

RECURSIVE ContextText(_, _)
\* the context's values, concatenated in the order of StepIds from position i
ContextText(ctx, i) ==
  IF i > Len(StepIds) THEN << >>
  ELSE (IF StepIds[i] \in DOMAIN ctx THEN ctx[StepIds[i]] ELSE << >>)
         \o ContextText(ctx, i + 1)

\* the text the stubbed agent answers a task with: "R" for research,
\* "A:" + context[...] for analysis, and so on
StubText(task) == <<Tag(task.agent_type)>> \o ContextText(task.context, 1)

\* the response text of an execute_task that returned: the text the outcome
\* carries, or the stub's answer
OutcomeText(task, o) == IF "text" \in DOMAIN o THEN o.text ELSE StubText(task)

\* ------------------------------- ResearchAgent on the completion service
\* what one generate_response call gives back: success with the content, or
\* success False after a non-200 status ("API Error: ...") or after an
\* exception of the HTTP call ("Connection error")
ServiceResults == {"content", "api_error", "connection_error"}

\* the four completion calls of one ResearchAgent.execute_task, in order:
\* research type, research plan, research, synthesis
ServiceCalls == [1..4 -> ServiceResults]

\* the content the service answers every prompt with (one word, no JSON)
ServiceContent == <<"R">>

CouldNotBeCompleted == <<"Research", "could", "not", "be", "completed">>

Smaller(x, y) == IF x <= y THEN x ELSE y

\* _assess_research_quality: the sum of five indicators of the content, each
\* worth 0.2 when it is present ("detailed" is worth 0.1 when it is not)
ResearchIndicators ==
  [comprehensive : BOOLEAN, structured : BOOLEAN, detailed : BOOLEAN,
   specific : BOOLEAN, objective : BOOLEAN]

AssessResearchQuality(ind) ==
    (IF ind.comprehensive THEN 200000 ELSE 0)
  + (IF ind.structured THEN 200000 ELSE 0)
  + (IF ind.detailed THEN 200000 ELSE 100000)
  + (IF ind.specific THEN 200000 ELSE 0)
  + (IF ind.objective THEN 200000 ELSE 0)

\* ResearchAgent._calculate_confidence:
\* quality * 0.4 + min(sources / 5, 1) * 0.3 + min(findings / 5, 1) * 0.3,
\* then min(confidence, 1.0)
CalculateConfidence(quality_score, sources_count, findings_count) ==
  Smaller((quality_score * 4) \div 10
            + (Smaller(sources_count * 200000, 1000000) * 3) \div 10
            + (Smaller(findings_count * 200000, 1000000) * 3) \div 10,
          1000000)

\* ResearchAgent.execute_task: no completion failure raises, each one is
\* replaced by a default, and the confidence is computed from what is left
ResearchExecuteTask(calls) ==
  LET \* _create_research_plan: the content is no JSON, so the fallback plan
      \* (three sources) on success, {} on failure
      plan_sources == IF calls[2] = "content" THEN 3 ELSE 0
      conducted == calls[3] = "content"
      \* _assess_research_quality of the one-word content: detailed 0.1 and
      \* objective 0.2; research_results has no quality_score on failure (0.5)
      quality_score == IF conducted THEN 300000 ELSE 500000
      sources_count == IF conducted THEN plan_sources ELSE 0
      findings_count == 0
      confidence == CalculateConfidence(quality_score, sources_count, findings_count)
      final_report == IF calls[4] = "content" \/ conducted
                      THEN ServiceContent ELSE CouldNotBeCompleted
  IN [kind |-> "ok", confidence |-> confidence, error |-> None, text |-> final_report]

\* ------------------------------------------- agents scoring their results
\* AgentResponse.confidence: Field(ge=0.0, le=1.0); constructing an
\* AgentResponse with a confidence outside raises a ValidationError
ValidConfidence(c) == c >= 0 /\ c <= 1000000

\* ResearchAgent.execute_task on research_results with the given quality
\* indicators and numbers of sources and key findings
ResearchScored(ind, sources_count, findings_count) ==
  [kind |-> "ok",
   confidence |-> CalculateConfidence(AssessResearchQuality(ind),
                                      sources_count, findings_count),
   error |-> None]

\* what _calculate_code_confidence looks for in the reviewed code
CodeIndicators ==
  [has_comments : BOOLEAN, has_error_handling : BOOLEAN, has_functions : BOOLEAN,
   has_documentation : BOOLEAN, proper_structure : BOOLEAN, language_match : BOOLEAN]

\* CodingAgent._calculate_code_confidence: sum(quality_indicators.values()),
\* language_match being an entry only when the language is found in the code
CalculateCodeConfidence(ind) ==
    (IF ind.has_comments THEN 200000 ELSE 0)
  + (IF ind.has_error_handling THEN 200000 ELSE 0)
  + (IF ind.has_functions THEN 200000 ELSE 0)
  + (IF ind.has_documentation THEN 200000 ELSE 0)
  + (IF ind.proper_structure THEN 200000 ELSE 100000)
  + (IF ind.language_match THEN 100000 ELSE 0)

\* str(e) of the ValidationError that AgentResponse raises for the confidence
\* 1.1 (pydantic 2; the last token names the installed release)
ConfidenceValidationError ==
  <<"1", "validation", "error", "for", "AgentResponse", "confidence", "Input",
    "should", "be", "less", "than", "or", "equal", "to", "1",
    "[type=less_than_equal,", "input_value=1.1,", "input_type=float]", "For",
    "further", "information", "visit",
    "https://errors.pydantic.dev/2.13/v/less_than_equal">>

\* f"Coding task failed: {str(e)}"
CodingTaskFailed(e) == <<"Coding", "task", "failed:">> \o e

\* CodingAgent.execute_task on reviewed code with the given indicators: the
\* AgentResponse with the computed confidence, or, when its construction
\* raises, the response of the except clause (confidence 0.0)
CodingExecuteTask(ind) ==
  IF ValidConfidence(CalculateCodeConfidence(ind))
  THEN [kind |-> "ok", confidence |-> CalculateCodeConfidence(ind), error |-> None]
  ELSE [kind |-> "ok", confidence |-> 0, error |-> None,
        text |-> CodingTaskFailed(ConfidenceValidationError)]

\* ------------------------------------------------------------ AgentPool
NoAgent == <<"none", 0>>

Min(S) == CHOOSE x \in S : \A y \in S : x <= y

\* the selection without the busy test: the first agent of the bucket
GetAvailableAgentIgnoringBusy(s, agent_type) ==
  LET bucket == s.agent_types[agent_type]
  IN IF bucket = << >> THEN NoAgent ELSE bucket[1]

\* a selection that takes the free agent registered last
GetAvailableAgentNewest(s, agent_type) ==
  LET bucket == s.agent_types[agent_type]
      free == {i \in 1..Len(bucket) : ~s.is_busy[bucket[i]]}
  IN IF free = {} THEN NoAgent ELSE bucket[CHOOSE i \in free : \A j \in free : j <= i]

\* a selection that balances load: the agent of the bucket with the shortest
\* history, busy or not
GetAvailableAgentLeastUsed(s, agent_type) ==
  LET bucket == s.agent_types[agent_type]
      least == {i \in 1..Len(bucket) :
                  \A j \in 1..Len(bucket) :
                    Len(s.task_history[bucket[i]]) <= Len(s.task_history[bucket[j]])}
  IN IF bucket = << >> THEN NoAgent ELSE bucket[Min(least)]

\* _get_available_agent: the first agent of the bucket whose is_busy is false
GetAvailableAgent(s, agent_type) ==
  LET bucket == s.agent_types[agent_type]
      free == {i \in 1..Len(bucket) : ~s.is_busy[bucket[i]]}
  IN IF free = {} THEN NoAgent ELSE bucket[Min(free)]

\* ------------------------------------------------- BaseAgent.process_task
\* process_task without its busy test
BusyCheckDropped(s, a) == FALSE

\* "if self.is_busy:"
BusyCheck(s, a) == s.is_busy[a]

\* process_task without its finally clause
ReleaseBusyForgotten(s, a) == s

\* "finally: self.is_busy = False"
ReleaseBusy(s, a) == [s EXCEPT !.is_busy[a] = FALSE]

\* GroqClient._ensure_session: "if self.session is None: self.session =
\* aiohttp.ClientSession()"; a session that was closed is not replaced
EnsureSession(s, a) ==
  [s EXCEPT !.session[a] = IF @ = "none" THEN "open" ELSE @]

AgentUnavailable(a) ==
  Response(a, a[1], BusyText, 0, <<"Agent", "unavailable">>, EmptyMap)

\* process_task up to the first completion call of execute_task: the busy
\* flag is taken and the task is running; execute_task of every agent kind
\* starts with a completion call, which opens the agent's client session if
\* it has none
ProcessTaskStart(s, a, t) ==
  EnsureSession([s EXCEPT !.is_busy[a] = TRUE,
                          !.tasks[t].status = "running",
                          !.inflight = Put(@, t, [agent |-> a])], a)

\* a process_task whose except clause marks the task failed but drops str(e)
ProcessTaskFinishDropsError(s, t, o) ==
  LET a == s.inflight[t].agent
      s1 == IF o.kind = "ok"
            THEN [s EXCEPT !.tasks[t].status = "completed",
                           !.tasks[t].result = OutcomeText(s.tasks[t], o),
                           !.task_history[a] = Append(@, t)]
            ELSE [s EXCEPT !.tasks[t].status = "failed"]
  IN ReleaseBusy([s1 EXCEPT !.inflight = Del(@, t)], a)

\* process_task from the return (or raise) of execute_task to its own return
ProcessTaskFinish(s, t, o) ==
  LET a == s.inflight[t].agent
      s1 == IF o.kind = "ok"
            THEN [s EXCEPT !.tasks[t].status = "completed",
                           !.tasks[t].result = OutcomeText(s.tasks[t], o),
                           !.task_history[a] = Append(@, t)]
            ELSE [s EXCEPT !.tasks[t].status = "failed",
                           !.tasks[t].error = o.error]
  IN ReleaseBusy([s1 EXCEPT !.inflight = Del(@, t)], a)

\* the AgentResponse process_task returns after execute_task returned or raised
ProcessTaskResponse(s, t, o) ==
  LET a == s.inflight[t].agent
  IN IF o.kind = "ok"
     THEN Response(a, a[1], OutcomeText(s.tasks[t], o), o.confidence,
                   <<"stub">>, [k \in {"task_id"} |-> t])
     ELSE Response(a, a[1], TaskFailedText(o.error), 0, ErrorOccurredText(o.error),
                   [k \in {"error", "task_id"} |-> IF k = "error" THEN o.error ELSE t])

ConnectionError == <<"Connection", "error">>

AnalysisCouldNotBeCompleted == <<"Analysis", "could", "not", "be", "completed">>

\* CodingAgent._generate_code_solution after a failed completion call:
\* "# Code generation failed\n# Error: " + result.get("error")
CodeGenerationFailed ==
  <<"#", "Code", "generation", "failed", "#", "Error:">> \o ConnectionError

\* DocumentAgent._format_document_results on {"error": "Content generation
\* failed"}
DocumentProcessingError ==
  <<"Document", "processing", "error:", "Content", "generation", "failed">>

\* execute_task on an agent whose client session is closed: the request of
\* every completion call raises "Session is closed" before it suspends and
\* generate_completion turns it into success False, "Connection error", so
\* execute_task runs to its end without suspending.  ResearchAgent answers
\* with its defaults; AnalystAgent's confidence is 0.5 * 0.4 with no pattern,
\* recommendation or context; CodingAgent scores the two comment lines it
\* returns (comments; fewer than six lines; the language "" is found in any
\* text); DocumentAgent's confidence for an error result is 0.0.  An agent
\* that raises on the failed call raises its error text
ClosedOutcome(s, agent_type) ==
  IF s.handling = "raises" THEN Raises(ConnectionError)
  ELSE CASE agent_type = "research" ->
              ResearchExecuteTask([i \in 1..4 |-> "connection_error"])
         [] agent_type = "analyst" ->
              [kind |-> "ok", confidence |-> (500000 * 4) \div 10, error |-> None,
               text |-> AnalysisCouldNotBeCompleted]
         [] agent_type = "coding" ->
              [kind |-> "ok",
               confidence |-> CalculateCodeConfidence(
                  [has_comments |-> TRUE, has_error_handling |-> FALSE,
                   has_functions |-> FALSE, has_documentation |-> FALSE,
                   proper_structure |-> FALSE, language_match |-> TRUE]),
               error |-> None, text |-> CodeGenerationFailed]
         [] agent_type = "document" ->
              [kind |-> "ok", confidence |-> 0, error |-> None,
               text |-> DocumentProcessingError]

\* a call of process_task, as far as it runs without suspending: done with
\* the "unavailable" response; done with the response to an execute_task
\* that never suspended, on a closed session; or suspended in the HTTP
\* request of execute_task's first completion call
ProcessTask(s, a, t) ==
  IF BusyCheck(s, a)
  THEN [st |-> s, done |-> TRUE, resp |-> AgentUnavailable(a)]
  ELSE IF s.session[a] = "closed"
  THEN LET s1 == ProcessTaskStart(s, a, t)
           o == ClosedOutcome(s, a[1])
       IN [st |-> ProcessTaskFinish(s1, t, o), done |-> TRUE,
           resp |-> ProcessTaskResponse(s1, t, o)]
  ELSE [st |-> ProcessTaskStart(s, a, t), done |-> FALSE, resp |-> AgentUnavailable(a)]

\* a call (process_task or execute_task) returns its AgentResponse to its caller
Return(s, t, resp) == [s EXCEPT !.returned = [task |-> t, resp |-> resp]]

\* ------------------------------------------- AgentOrchestrator.execute_task
NoAgentResponse(agent_type) ==
  Response(<<"orchestrator", 0>>, agent_type, NoAvailableText(agent_type), 0,
           <<"No", "agent", "available">>, EmptyMap)

\* "self.completed_tasks.append(task)"
RecordTask(s, t) == [s EXCEPT !.completed_tasks = Append(@, t)]

\* execute_task as far as it runs without suspending
ExecuteTask(s, t) ==
  LET a == GetAvailableAgent(s, s.tasks[t].agent_type)
      r == ProcessTask(s, a, t)
  IN IF a = NoAgent
     THEN [st |-> s, done |-> TRUE, resp |-> NoAgentResponse(s.tasks[t].agent_type)]
     ELSE IF r.done
          THEN [st |-> RecordTask(r.st, t), done |-> TRUE, resp |-> r.resp]
          ELSE r

\* ---------------------------------- AgentOrchestrator._execute_single_task
\* "COMPLETED if response.confidence > 0.5 else FAILED"
StatusFor(confidence) ==
  IF confidence > ConfidenceThreshold THEN "completed" ELSE "failed"

\* a dispatcher that logs the finished task but keeps it in active_tasks
ExecuteSingleTaskFinishKeepsActive(s, t, resp) ==
  [s EXCEPT !.tasks[t].status = StatusFor(resp.confidence),
            !.tasks[t].result = resp.response,
            !.completed_tasks = Append(@, t)]

\* lines 118-126: after process_task returned
ExecuteSingleTaskFinish(s, t, resp) ==
  [s EXCEPT !.tasks[t].status = StatusFor(resp.confidence),
            !.tasks[t].result = resp.response,
            !.completed_tasks = Append(@, t),
            !.active_tasks = @ \ {t}]

\* a dispatcher that drops a task it finds no agent for, leaving it pending
FailNoAgentSilently(s, t) == s

\* lines 108-112: no agent of the task's type is available
FailNoAgent(s, t) ==
  [s EXCEPT !.tasks[t].status = "failed",
            !.tasks[t].error = NoAvailableText(s.tasks[t].agent_type)]

\* _execute_single_task as far as it runs without suspending
ExecuteSingleTask(s, t) ==
  LET a == GetAvailableAgent(s, s.tasks[t].agent_type)
      s1 == [s EXCEPT !.active_tasks = @ \cup {t}]
      r == ProcessTask(s1, a, t)
  IN IF a = NoAgent
     THEN [st |-> FailNoAgent(s, t), done |-> TRUE]
     ELSE IF r.done
          THEN [st |-> ExecuteSingleTaskFinish(Return(r.st, t, r.resp), t, r.resp),
                done |-> TRUE]
          ELSE [st |-> r.st, done |-> FALSE]

\* -------------------------------------- AgentOrchestrator._process_task_queue
\* asyncio.Semaphore.locked(): no permit left, or a waiter that has not left
\* _waiters yet (a waiter leaves it when it resumes)
Locked(s) == s.semaphore = 0 \/ s.waiters # << >>

\* "async with self.semaphore": acquire() on a semaphore that is not locked
SemAcquire(s) == [s EXCEPT !.semaphore = @ - 1]

\* Semaphore._wake_up_next: the first waiter whose future is not done is
\* given a permit and its future is resolved
WakeUpNext(s) ==
  LET pending == {i \in 1..Len(s.waiters) : s.dispatcher[s.waiters[i]].pc = "acquire"}
  IN IF pending = {} THEN s
     ELSE [s EXCEPT !.semaphore = @ - 1,
                    !.dispatcher[s.waiters[Min(pending)]].pc = "granted"]

\* a dispatcher that keeps the permit
SemReleaseForgotten(s) == s

\* "async with self.semaphore", __aexit__: release()
SemRelease(s) == WakeUpNext([s EXCEPT !.semaphore = @ + 1])

\* list.remove(x) on a list that holds x once
Remove(list, x) == SelectSeq(list, LAMBDA y : y # x)

\* a queue that hands out the newest task first
DequeueNewest(q) == [task |-> q[Len(q)], rest |-> SubSeq(q, 1, Len(q) - 1)]

\* asyncio.Queue.get on a nonempty queue: the oldest task leaves the queue
Dequeue(q) == [task |-> Head(q), rest |-> Tail(q)]

\* asyncio.Queue.put_nowait: the item is appended and the first getter is
\* taken off _getters and woken
PutNowait(s, t) ==
  LET s1 == [s EXCEPT !.task_queue = Append(@, t)]
  IN IF s.getters = << >> THEN s1
     ELSE [s1 EXCEPT !.getters = Tail(@),
                     !.dispatcher[Head(s.getters)].pc = "woken"]

RECURSIVE DispatchLoopDiesOnFailure(_, _, _)
\* a dispatcher loop that ends with the first failed task
DispatchLoopDiesOnFailure(s, d, held) ==
  IF held # 0
  THEN LET r == ExecuteSingleTask(s, held)
       IN IF r.done
          THEN DispatchLoopDiesOnFailure(SemRelease(r.st), d, 0)
          ELSE [r.st EXCEPT !.dispatcher[d] = [pc |-> "exec", task |-> held]]
  ELSE IF \E u \in DOMAIN s.tasks : s.via[u].path = "queued" /\ s.tasks[u].status = "failed"
  THEN [s EXCEPT !.dispatcher[d] = [pc |-> "dead", task |-> 0]]
  ELSE IF s.task_queue = << >>
  THEN [s EXCEPT !.dispatcher[d] = [pc |-> "get", task |-> 0],
                 !.getters = Append(@, d)]
  ELSE LET t == Dequeue(s.task_queue).task
           s1 == [s EXCEPT !.task_queue = Dequeue(@).rest]
       IN IF Locked(s1)
          THEN [s1 EXCEPT !.dispatcher[d] = [pc |-> "acquire", task |-> t],
                          !.waiters = Append(@, d)]
          ELSE DispatchLoopDiesOnFailure(SemAcquire(s1), d, t)

RECURSIVE DispatchLoop(_, _, _)
\* the loop of dispatcher coroutine d until it suspends.  With held = 0 it
\* runs from "await self.task_queue.get()": on an empty queue the coroutine
\* joins the queue's getters; otherwise it takes the oldest task and enters
\* "async with self.semaphore", joining the semaphore's waiters when it is
\* locked.  With a task held it runs from the point where the permit for
\* that task is taken: _execute_single_task, suspending in the agent or
\* finishing at once, then the release of the permit and the next round
DispatchLoop(s, d, held) ==
  IF held # 0
  THEN LET r == ExecuteSingleTask(s, held)
       IN IF r.done
          THEN DispatchLoop(SemRelease(r.st), d, 0)
          ELSE [r.st EXCEPT !.dispatcher[d] = [pc |-> "exec", task |-> held]]
  ELSE IF s.task_queue = << >>
  THEN [s EXCEPT !.dispatcher[d] = [pc |-> "get", task |-> 0],
                 !.getters = Append(@, d)]
  ELSE LET t == Dequeue(s.task_queue).task
           s1 == [s EXCEPT !.task_queue = Dequeue(@).rest]
       IN IF Locked(s1)
          THEN [s1 EXCEPT !.dispatcher[d] = [pc |-> "acquire", task |-> t],
                          !.waiters = Append(@, d)]
          ELSE DispatchLoop(SemAcquire(s1), d, t)


\* ------------------------------------------------------------ construction
\* AgentOrchestrator.__init__
Init ==
  /\ agent_types = [ty \in AgentTypes |-> << >>]
  /\ is_initialized = FALSE
  /\ max_concurrent_tasks = MaxConcurrentTasks
  /\ semaphore = max_concurrent_tasks
  /\ task_queue = << >>
  /\ active_tasks = {}
  /\ completed_tasks = << >>
  /\ is_busy = EmptyMap
  /\ task_history = EmptyMap
  /\ session = EmptyMap
  /\ tasks = EmptyMap
  /\ dispatcher = << >>
  /\ getters = << >>
  /\ waiters = << >>
  /\ inflight = EmptyMap
  /\ cleanups = {}
  /\ returned = NoReturn
  /\ via = EmptyMap
  /\ workflow = << >>
  /\ wf_pc = << >>
  /\ wf_i = << >>
  /\ context = << >>
  /\ results = << >>
  /\ wf_record = << >>

\* tasks that came in from outside (not created by the workflow engine)
External(s) == {t \in DOMAIN s.tasks : s.via[t].path \in {"queued", "direct", "agent"}}

\* a task object a caller builds, and the entry point it hands it to (for a
\* task of the workflow engine: the execute_workflow call and the step)
WithTask(s, agent_type, ctx, path, run, step) ==
  [s EXCEPT !.tasks = Put(@, FreshId(s), NewTask(agent_type, ctx)),
            !.via = Put(@, FreshId(s), [path |-> path, run |-> run, step |-> step])]

\* _create_default_agents: AgentsPerType new agents join every bucket, behind
\* the agents the bucket has
CreateDefaultAgents(s) ==
  LET created == {<<ty, Len(s.agent_types[ty]) + i>> :
                    ty \in AgentTypes, i \in 1..AgentsPerType}
  IN [s EXCEPT
       !.agent_types = [ty \in AgentTypes |->
          s.agent_types[ty]
            \o [i \in 1..AgentsPerType |-> <<ty, Len(s.agent_types[ty]) + i>>]],
       !.is_busy = [a \in (DOMAIN s.is_busy) \cup created |->
                      IF a \in DOMAIN s.is_busy THEN s.is_busy[a] ELSE FALSE],
       !.task_history = [a \in (DOMAIN s.is_busy) \cup created |->
                      IF a \in DOMAIN s.is_busy THEN s.task_history[a] ELSE << >>],
       !.session = [a \in (DOMAIN s.is_busy) \cup created |->
                      IF a \in DOMAIN s.is_busy THEN s.session[a] ELSE "none"]]

\* an initialize that schedules a pool of two dispatcher coroutines
InitializeTwoConsumers ==
  /\ Len(dispatcher) < MaxInitialize
  /\ Become([CreateDefaultAgents(Cur) EXCEPT
               !.dispatcher = @ \o <<[pc |-> "start", task |-> 0],
                                     [pc |-> "start", task |-> 0]>>,
               !.is_initialized = TRUE])

\* AgentOrchestrator.initialize: _create_default_agents, then a dispatcher
\* coroutine is scheduled (asyncio.create_task) and is_initialized is set.
\* Nothing in it looks at is_initialized or at what an earlier call made:
\* every call adds a batch of agents and one more dispatcher coroutine
Initialize ==
  /\ Len(dispatcher) < MaxInitialize
  /\ Become([CreateDefaultAgents(Cur) EXCEPT
               !.dispatcher = Append(@, [pc |-> "start", task |-> 0]),
               !.is_initialized = TRUE])

\* a caller puts a task on the dispatcher's queue (task_queue.put_nowait)
Enqueue(ty) ==
    /\ Cardinality(External(Cur)) < MaxTasks
    /\ Become(PutNowait(WithTask(Cur, ty, EmptyMap, "queued", 0, 0), FreshId(Cur)))

\* a dispatcher coroutine runs for the first time
DispatcherStart ==
  \E d \in DOMAIN dispatcher :
    /\ dispatcher[d].pc = "start"
    /\ \E h \in Handlings : Become(DispatchLoop(On(h), d, 0))

\* a dispatcher that a put woke from get() resumes: "while self.empty()" is
\* evaluated again, another dispatcher may have taken the task meanwhile
DispatcherWake ==
  \E d \in DOMAIN dispatcher :
    /\ dispatcher[d].pc = "woken"
    /\ \E h \in Handlings : Become(DispatchLoop(On(h), d, 0))

\* a dispatcher that a release gave the permit resumes in acquire(): it
\* leaves _waiters, wakes the next waiter if a permit is left, and executes
\* the task it holds
DispatcherGranted ==
  \E d \in DOMAIN dispatcher :
    /\ dispatcher[d].pc = "granted"
    /\ \E h \in Handlings :
         LET s1 == [On(h) EXCEPT !.waiters = Remove(@, d)]
             s2 == IF s1.semaphore > 0 THEN WakeUpNext(s1) ELSE s1
         IN Become(DispatchLoop(s2, d, dispatcher[d].task))

\* the agent of a dispatcher's task returns (or raises): process_task and
\* _execute_single_task finish, the permit is released, and the loop goes on
QueuedReturns(o) ==
  \E d \in DOMAIN dispatcher :
    /\ dispatcher[d].pc = "exec"
    /\ \E h \in Handlings :
         LET t == dispatcher[d].task
             resp == ProcessTaskResponse(Cur, t, o)
             s1 == ProcessTaskFinish(On(h), t, o)
             s2 == ExecuteSingleTaskFinish(Return(s1, t, resp), t, resp)
         IN \E s3 \in {SemRelease(s2)} : Become(DispatchLoop(s3, d, 0))

\* a caller (an API handler) awaits execute_task on a new task
SubmitDirect(ty, max) ==
    /\ Cardinality(External(Cur)) < max
    /\ \E h \in Handlings :
         LET t == FreshId(Cur)
             r == ExecuteTask(WithTask(On(h), ty, EmptyMap, "direct", 0, 0), t)
         IN Become(IF r.done THEN Return(r.st, t, r.resp) ELSE r.st)

\* the agent of a direct execute_task returns (or raises)
DirectReturns(o) ==
  \E t \in DOMAIN inflight :
    /\ via[t].path = "direct"
    /\ LET resp == ProcessTaskResponse(Cur, t, o)
           s1 == ProcessTaskFinish(Cur, t, o)
       IN Become(Return(RecordTask(s1, t), t, resp))

\* a caller holding an agent (get_agent) awaits its process_task on a new task
CallAgent(a) ==
    /\ a \in DOMAIN is_busy
    /\ Cardinality(External(Cur)) < MaxTasks
    /\ \E h \in Handlings :
         LET t == FreshId(Cur)
             r == ProcessTask(WithTask(On(h), a[1], EmptyMap, "agent", 0, 0), a, t)
         IN Become(IF r.done THEN Return(r.st, t, r.resp) ELSE r.st)

\* the agent of a straight process_task call returns (or raises)
AgentCallReturns(o) ==
  \E t \in DOMAIN inflight :
    /\ via[t].path = "agent"
    /\ LET resp == ProcessTaskResponse(Cur, t, o)
           s1 == ProcessTaskFinish(Cur, t, o)
       IN Become(Return(s1, t, resp))

\* a caller holding an agent (get_agent) awaits one of its coroutines that
\* make a completion call outside process_task (generate_response,
\* conduct_fact_check, debug_code, ...): the agent's client session is opened
\* if it has none, and is_busy is neither looked at nor taken; the call's
\* return changes nothing of the state
GenerateResponse(a) ==
    /\ a \in DOMAIN session
    /\ Become(EnsureSession(Cur, a))

\* BaseAgent.cleanup, GroqClient.close: an agent's session, if it is open,
\* is closed, and nothing else of the state changes
CloseSession(s, a) ==
  [s EXCEPT !.session[a] = IF @ = "open" THEN "closed" ELSE @]

\* a caller holding an agent (get_agent) awaits its cleanup(), or close() on
\* its client; whether session.close() suspends the caller or returns at
\* once, no coroutine of the orchestrator waits for it
AgentCleanup(a) ==
    /\ a \in DOMAIN session
    /\ Become(CloseSession(Cur, a))

\* ------------------------------------------------ AgentOrchestrator.cleanup
\* len(self.agents): every batch of _create_default_agents registers
\* AgentsPerType agents of each type
NumAgents(s) == Len(AgentType) * Len(s.agent_types[AgentType[1]])

\* the k-th of self.agents.values(): the registered agents in insertion
\* order, batch by batch and, within a batch, type by type
AgentAt(k) ==
  LET per_batch == Len(AgentType) * AgentsPerType
      batch == (k - 1) \div per_batch
      within == (k - 1) % per_batch
  IN <<AgentType[(within \div AgentsPerType) + 1],
       batch * AgentsPerType + (within % AgentsPerType) + 1>>

RECURSIVE AppendAll(_, _)
\* the list with the ids of S appended, in the order of the ids
AppendAll(list, S) ==
  IF S = {} THEN list ELSE AppendAll(Append(list, Min(S)), S \ {Min(S)})

\* a cancel loop that also logs every task it cancels in completed_tasks and
\* leaves the task in active_tasks
CancelActiveLogged(s) ==
  [s EXCEPT !.tasks = [t \in DOMAIN @ |->
       IF t \in s.active_tasks THEN [@[t] EXCEPT !.status = "cancelled"] ELSE @[t]],
            !.completed_tasks = AppendAll(@, s.active_tasks)]

\* "for task in self.active_tasks.values(): task.status = CANCELLED"
CancelActive(s) ==
  [s EXCEPT !.tasks = [t \in DOMAIN @ |->
       IF t \in s.active_tasks THEN [@[t] EXCEPT !.status = "cancelled"] ELSE @[t]]]

RECURSIVE CleanupAgents(_, _, _, _)
\* "for agent in self.agents.values(): await agent.cleanup()" from the k-th
\* agent on, in a call that found `used` agents registered, until the call
\* suspends or returns.  The dict iterator raises RuntimeError when the dict
\* has grown since the loop began, and the except clause of cleanup ends the
\* call there.  GroqClient.close awaits session.close() only if the agent has
\* a session.  Closing an open session marks it closed; whether the await
\* then suspends the call depends on the connector (with nothing to wait for
\* it returns at once): the call suspends at the agents in `yielding`.
\* Without a session, or with a closed one, the await returns at once.  After
\* the last agent: "self.is_initialized = False"
CleanupAgents(s, k, used, yielding) ==
  IF NumAgents(s) # used THEN s
  ELSE IF k > used THEN [s EXCEPT !.is_initialized = FALSE]
  ELSE IF s.session[AgentAt(k)] = "open"
  THEN IF AgentAt(k) \in yielding
       THEN [s EXCEPT !.session[AgentAt(k)] = "closed",
                      !.cleanups = @ \cup {[at |-> k, used |-> used]}]
       ELSE CleanupAgents([s EXCEPT !.session[AgentAt(k)] = "closed"],
                          k + 1, used, yielding)
  ELSE CleanupAgents(s, k + 1, used, yielding)

\* a call of cleanup, as far as it runs without suspending
CleanupCall(s, yielding) == CleanupAgents(CancelActive(s), 1, NumAgents(s), yielding)

\* the suspended call f resumes: the session's close() has returned, and the
\* loop goes on with the next agent
CleanupResumed(s, f, yielding) ==
  CleanupAgents([s EXCEPT !.cleanups = @ \ {f}], f.at + 1, f.used, yielding)

\* the agents whose client session is open
OpenSessions == {a \in DOMAIN session : session[a] = "open"}

\* a caller awaits cleanup(); nothing guards the call, one can be made while
\* earlier ones are suspended
CleanupBegin == \E yielding \in SUBSET OpenSessions : Become(CleanupCall(Cur, yielding))

\* a suspended cleanup call resumes
CleanupResume ==
  \E f \in cleanups, yielding \in SUBSET OpenSessions :
    Become(CleanupResumed(Cur, f, yielding))

\* the calls of initialize and the tasks submitted are at most MaxTasks + 1
\* together: a behaviour with more dispatchers has fewer tasks
WithinBudget == Len(dispatcher) + Cardinality(External(Cur)) <= MaxTasks

\* the one call of initialize that main.py makes, at startup
Startup == dispatcher = << >> /\ Initialize

\* the orchestrator's entry points: initialize, the queue and its
\* dispatchers, direct execute_task calls, and shutdown
Next ==
  \/ (WithinBudget /\ Initialize)
  \/ \E ty \in SubmittedTypes : WithinBudget /\ Enqueue(ty)
  \/ DispatcherStart
  \/ DispatcherWake
  \/ DispatcherGranted
  \/ \E o \in Outcomes : QueuedReturns(o)
  \/ \E ty \in SubmittedTypes : WithinBudget /\ SubmitDirect(ty, MaxTasks)
  \/ \E o \in Outcomes : DirectReturns(o)
  \/ \E ty \in SubmittedTypes, i \in 1..AgentsPerType : GenerateResponse(<<ty, i>>)
  \/ \E ty \in SubmittedTypes, i \in 1..AgentsPerType : AgentCleanup(<<ty, i>>)
  \/ CleanupBegin
  \/ CleanupResume

Spec == Init /\ [][Next]_vars

\* callers that hold agents and call process_task on them, beside direct
\* execute_task calls that use the same agents
NextAgent ==
  \/ (WithinBudget /\ Initialize)
  \/ \E ty \in MixedTypes, i \in 1..AgentsPerType : WithinBudget /\ CallAgent(<<ty, i>>)
  \/ \E o \in AgentCallOutcomes : AgentCallReturns(o)
  \/ \E ty \in MixedTypes : WithinBudget /\ SubmitDirect(ty, MaxTasks)
  \/ \E o \in AgentCallOutcomes : DirectReturns(o)

SpecAgent == Init /\ [][NextAgent]_vars

\* startup, tasks on the queue and direct ones, and shutdown: cleanup calls
\* that overlap, and session closes that suspend the call or return at once
NextShutdown ==
  \/ Startup
  \/ \E ty \in SubmittedTypes : WithinBudget /\ Enqueue(ty)
  \/ DispatcherStart
  \/ DispatcherWake
  \/ \E o \in WfOutcomes : QueuedReturns(o)
  \/ \E ty \in SubmittedTypes : WithinBudget /\ SubmitDirect(ty, MaxTasks)
  \/ \E o \in SideOutcomes : DirectReturns(o)
  \/ CleanupBegin
  \/ CleanupResume

SpecShutdown == Init /\ [][NextShutdown]_vars

\* ------------------------------------------- AgentOrchestrator.execute_workflow
\* The Workflows execute_workflow is tried with.  A step is a WorkflowStep; its
\* dependencies and context_keys are sets (the code only iterates over them).
StepType(id) == IF id = "A" THEN "research" ELSE "analyst"

\* step A is tried depending on nothing, on itself and on B; step B on nothing,
\* on A and on the absent X
DepChoices(id) == IF id = "A" THEN {{}, {"A"}, {"B"}} ELSE {{}, {"A"}, {"X"}}

CtxChoices(id) == IF id = "A" THEN {{}, {"B"}} ELSE {{}, {"A"}, {"A", "X"}}

StepChoices(id) ==
  {[id |-> id, agent_type |-> StepType(id), prompt |-> "p",
    dependencies |-> d, context_keys |-> c] :
     d \in DepChoices(id), c \in CtxChoices(id)}

Workflows ==
  {<<a>> : a \in StepChoices("A")}
    \cup {<<a, b>> : a \in StepChoices("A"), b \in StepChoices("B")}
    \cup {<<b, a>> : a \in StepChoices("A"), b \in StepChoices("B")}

\* lines 242-250, the except clause of execute_workflow: the record of a
\* failed execution, returned by call r.  Nothing in the try block raises on
\* a validated Workflow (execute_task and _generate_workflow_summary catch
\* every Exception, the dependency poll only sleeps)
ReturnFailed(s, r, e) ==
  [s EXCEPT !.wf_pc[r] = "returned",
            !.wf_record[r] = [status |-> "failed", error |-> e]]

\* ------------------------ AgentOrchestrator.create_collaborative_workflow
\* "x in agent_types" on the list of requested types
Requested(agent_types_in, ty) ==
  \E i \in 1..Len(agent_types_in) : agent_types_in[i] = ty

\* "any(step.id == phase for step in steps)"
HasStep(steps, phase) == \E i \in 1..Len(steps) : steps[i].id = phase

\* a WorkflowStep of the collaborative workflow; dependencies and context_keys
\* are lists here
PhaseStep(id, agent_type, deps, context_keys) ==
  [id |-> id, agent_type |-> agent_type, prompt |-> "p",
   dependencies |-> deps, context_keys |-> context_keys]

\* a builder that wires the coding phase to research and analysis always
CreateCollaborativeWorkflowUnconditional(agent_types_in) ==
  LET has_research == Requested(agent_types_in, "research")
      has_analyst == Requested(agent_types_in, "analyst")
      research == IF has_research
                  THEN <<PhaseStep("research_phase", "research", << >>, << >>)>>
                  ELSE << >>
      analysis == IF has_analyst
                  THEN <<PhaseStep("analysis_phase", "analyst",
                           IF has_research THEN <<"research_phase">> ELSE << >>,
                           IF has_research THEN <<"research_phase">> ELSE << >>)>>
                  ELSE << >>
      coding_deps == <<"research_phase", "analysis_phase">>
      coding == IF Requested(agent_types_in, "coding")
                THEN <<PhaseStep("coding_phase", "coding", coding_deps, coding_deps)>>
                ELSE << >>
      steps == research \o analysis \o coding
      doc_deps == (IF HasStep(steps, "research_phase") THEN <<"research_phase">> ELSE << >>)
                    \o (IF HasStep(steps, "analysis_phase") THEN <<"analysis_phase">> ELSE << >>)
                    \o (IF HasStep(steps, "coding_phase") THEN <<"coding_phase">> ELSE << >>)
      documentation == IF Requested(agent_types_in, "document")
                       THEN <<PhaseStep("documentation_phase", "document", doc_deps, doc_deps)>>
                       ELSE << >>
  IN steps \o documentation

\* create_collaborative_workflow: the steps of the Workflow it returns
CreateCollaborativeWorkflow(agent_types_in) ==
  LET has_research == Requested(agent_types_in, "research")
      has_analyst == Requested(agent_types_in, "analyst")
      research == IF has_research
                  THEN <<PhaseStep("research_phase", "research", << >>, << >>)>>
                  ELSE << >>
      analysis == IF has_analyst
                  THEN <<PhaseStep("analysis_phase", "analyst",
                           IF has_research THEN <<"research_phase">> ELSE << >>,
                           IF has_research THEN <<"research_phase">> ELSE << >>)>>
                  ELSE << >>
      coding_deps == (IF has_research THEN <<"research_phase">> ELSE << >>)
                       \o (IF has_analyst THEN <<"analysis_phase">> ELSE << >>)
      coding == IF Requested(agent_types_in, "coding")
                THEN <<PhaseStep("coding_phase", "coding", coding_deps, coding_deps)>>
                ELSE << >>
      steps == research \o analysis \o coding
      doc_deps == (IF HasStep(steps, "research_phase") THEN <<"research_phase">> ELSE << >>)
                    \o (IF HasStep(steps, "analysis_phase") THEN <<"analysis_phase">> ELSE << >>)
                    \o (IF HasStep(steps, "coding_phase") THEN <<"coding_phase">> ELSE << >>)
      documentation == IF Requested(agent_types_in, "document")
                       THEN <<PhaseStep("documentation_phase", "document", doc_deps, doc_deps)>>
                       ELSE << >>
  IN steps \o documentation

\* the elements of a list
Elements(list) == {list[i] : i \in 1..Len(list)}

\* the steps as the engine reads them: it only iterates over the two lists
EngineSteps(steps) ==
  [i \in 1..Len(steps) |->
     [steps[i] EXCEPT !.dependencies = Elements(@), !.context_keys = Elements(@)]]

\* an engine that does not wait for dependencies
DepsReadyUnchecked(dependencies, res) == TRUE

\* an engine that also wants its dependencies to have succeeded (strict gating)
DepsReadyAndConfident(dependencies, res) ==
  \A d \in dependencies : d \in DOMAIN res /\ res[d].confidence > ConfidenceThreshold

\* _wait_for_dependencies returns without sleeping: "dep_id not in results" is
\* false for every dep_id
DepsReady(dependencies, res) == \A d \in dependencies : d \in DOMAIN res

\* an engine that hands every step the whole accumulated context
StepContextWhole(step, ctx) == ctx

\* "for key in step.context_keys: if key in context: step_context[key] = context[key]"
StepContext(step, ctx) ==
  [k \in step.context_keys \cap DOMAIN ctx |-> ctx[k]]

\* lines 214-223: results[step.id] = {...}; context[step.id] = response.response
StoreResult(s, r, step, resp) ==
  [s EXCEPT !.results[r] = Put(@, step.id,
                            [response |-> resp.response, confidence |-> resp.confidence,
                             reasoning |-> resp.reasoning, metadata |-> resp.metadata]),
            !.context[r] = Put(@, step.id, resp.response)]

SummaryUnavailable ==
  <<"Workflow", "completed", "successfully", "but", "summary", "generation", "unavailable">>

\* lines 232-240: the record of a completed execution
ReturnCompleted(s, r, summary) ==
  [s EXCEPT !.wf_pc[r] = "returned",
            !.wf_record[r] = [status |-> "completed", results |-> s.results[r],
                              summary |-> summary, total_steps |-> Len(s.workflow[r])]]

\* an engine that fails the workflow when no research agent can summarise
GenerateSummaryOrFail(s, r) ==
  LET a == GetAvailableAgent(s, "research")
      t == FreshId(s)
      p == ProcessTask(WithTask(s, "research", EmptyMap, "summary", r, 0), a, t)
  IN IF a = NoAgent
     THEN ReturnFailed(s, r, <<"No", "agent", "available">>)
     ELSE IF p.done
          THEN ReturnCompleted(p.st, r, p.resp.response)
          ELSE [p.st EXCEPT !.wf_pc[r] = "summary"]

\* _generate_workflow_summary as far as it runs without suspending, and the
\* return of execute_workflow when it does not suspend
GenerateSummary(s, r) ==
  LET a == GetAvailableAgent(s, "research")
      t == FreshId(s)
      p == ProcessTask(WithTask(s, "research", EmptyMap, "summary", r, 0), a, t)
  IN IF a = NoAgent
     THEN ReturnCompleted(s, r, SummaryUnavailable)
     ELSE IF p.done
          THEN ReturnCompleted(p.st, r, p.resp.response)
          ELSE [p.st EXCEPT !.wf_pc[r] = "summary"]

RECURSIVE WorkflowLoopEager(_, _)
\* an engine that does not await a step's execute_task before it goes on to
\* the next step
WorkflowLoopEager(s, r) ==
  IF s.wf_i[r] > Len(s.workflow[r])
  THEN GenerateSummary(s, r)
  ELSE LET step == s.workflow[r][s.wf_i[r]]
           t == FreshId(s)
           s1 == WithTask(s, step.agent_type, StepContext(step, s.context[r]),
                          "step", r, s.wf_i[r])
           p == ExecuteTask(s1, t)
       IN IF ~DepsReady(step.dependencies, s.results[r])
          THEN [s EXCEPT !.wf_pc[r] = "waiting"]
          ELSE IF p.done
               THEN WorkflowLoopEager([StoreResult(p.st, r, step, p.resp)
                                         EXCEPT !.wf_i[r] = @ + 1], r)
               ELSE IF s.wf_i[r] < Len(s.workflow[r])
                    THEN WorkflowLoopEager([p.st EXCEPT !.wf_i[r] = @ + 1], r)
                    ELSE [p.st EXCEPT !.wf_pc[r] = "step"]

RECURSIVE WorkflowLoop(_, _)
\* the "for step in workflow.steps" loop of call r from step wf_i on, and what
\* follows it, until the coroutine suspends: in the dependency poll's sleep,
\* in an agent, or not at all (it returns)
WorkflowLoop(s, r) ==
  IF s.wf_i[r] > Len(s.workflow[r])
  THEN GenerateSummary(s, r)
  ELSE LET step == s.workflow[r][s.wf_i[r]]
           t == FreshId(s)
           s1 == WithTask(s, step.agent_type, StepContext(step, s.context[r]),
                          "step", r, s.wf_i[r])
           p == ExecuteTask(s1, t)
       IN IF ~DepsReady(step.dependencies, s.results[r])
          THEN [s EXCEPT !.wf_pc[r] = "waiting"]
          ELSE IF p.done
               THEN WorkflowLoop([StoreResult(p.st, r, step, p.resp)
                                    EXCEPT !.wf_i[r] = @ + 1], r)
               ELSE [p.st EXCEPT !.wf_pc[r] = "step"]

\* the frame of a new execute_workflow call: "context = {}", "results = {}"
\* are locals of the call, and the loop starts at the first step
NewRun(s, w) ==
  [s EXCEPT !.workflow = Append(@, w),
            !.wf_pc = Append(@, "step"),
            !.wf_i = Append(@, 1),
            !.context = Append(@, EmptyMap),
            !.results = Append(@, EmptyMap),
            !.wf_record = Append(@, EmptyMap)]

\* a caller awaits execute_workflow(w); nothing guards the call, one can be
\* made while earlier ones are suspended
StartWorkflow(w) ==
  \E h \in Handlings : Become(WorkflowLoop(NewRun(On(h), w), Len(wf_pc) + 1))

\* the dependency poll of a call wakes from asyncio.sleep(0.1) and looks again
WaitPoll ==
  \E r \in DOMAIN wf_pc :
    /\ wf_pc[r] = "waiting"
    /\ \E h \in Handlings : Become(WorkflowLoop(On(h), r))

\* the agent of the current step of call r returns (or raises): process_task
\* and execute_task finish, the result is stored and the call's loop goes on
StepReturns(r, o) ==
  \E t \in DOMAIN inflight :
    /\ via[t].path = "step"
    /\ via[t].run = r
    /\ \E h \in Handlings :
         LET resp == ProcessTaskResponse(Cur, t, o)
             s1 == RecordTask(ProcessTaskFinish(On(h), t, o), t)
             s2 == StoreResult(s1, r, s1.workflow[r][s1.wf_i[r]], resp)
         IN Become(WorkflowLoop([s2 EXCEPT !.wf_i[r] = @ + 1], r))

\* the research agent asked for the summary of call r returns (or raises)
SummaryReturns(r, o) ==
  \E t \in DOMAIN inflight :
    /\ via[t].path = "summary"
    /\ via[t].run = r
    /\ LET resp == ProcessTaskResponse(Cur, t, o)
           s1 == ProcessTaskFinish(Cur, t, o)
       IN Become(ReturnCompleted(s1, r, resp.response))

\* the workflows of the calls made while another call executes: one step,
\* research or analysis
SideWorkflows ==
  {<<[id |-> id, agent_type |-> StepType(id), prompt |-> "p",
      dependencies |-> {}, context_keys |-> {}]>> : id \in {"A", "B"}}

\* no execute_workflow call has been made
NoRun == wf_pc = << >>

\* a second execute_workflow call is made while the first one executes, and
\* with no task submitted beside it
SecondCall == Len(wf_pc) = 1 /\ wf_pc[1] # "returned" /\ External(Cur) = {}

\* tasks are submitted beside a single execute_workflow call
OneRun == Len(wf_pc) <= 1

\* a workflow of any shape, and beside it either direct execute_task calls
\* that keep agents busy or a second execute_workflow call
NextWf ==
  \/ Startup
  \/ \E w \in Workflows : NoRun /\ StartWorkflow(w)
  \/ \E w \in SideWorkflows : SecondCall /\ StartWorkflow(w)
  \/ WaitPoll
  \/ \E o \in WfOutcomes : StepReturns(1, o)
  \/ \E o \in WfOutcomes : SummaryReturns(1, o)
  \/ \E o \in SideOutcomes : StepReturns(2, o)
  \/ \E o \in SideOutcomes : SummaryReturns(2, o)
  \/ \E ty \in SubmittedTypes : OneRun /\ SubmitDirect(ty, MaxSideTasks)
  \/ \E o \in SideOutcomes : DirectReturns(o)

SpecWf == Init /\ [][NextWf]_vars


\* =================================================================== claims
\* tasks in flight on agent a: process_task calls suspended in its execute_task
InFlightOn(a) == {t \in DOMAIN inflight : inflight[t].agent = a}

\* the same, in the state a step leads to
InFlightOnNext(a) == {t \in DOMAIN inflight' : inflight'[t].agent = a}

\* the task objects a step creates
NewTasks == (DOMAIN tasks') \ (DOMAIN tasks)

\* C1: at most one task is in flight on an agent at any instant.  A task handed
\* to process_task of an agent with a task in flight is not executed: the call
\* returns at once with confidence 0.0 and the reasoning "Agent unavailable",
\* the task stays pending, it is neither queued nor parked, and the task in
\* flight is not disturbed.  A task handed to an idle agent is executed.
C1_MutualExclusion ==
  [][ /\ \A a \in DOMAIN is_busy' : Cardinality(InFlightOnNext(a)) <= 1
      /\ \A t \in NewTasks :
           via'[t].path = "agent" =>
             \/ /\ t \in DOMAIN inflight'
                /\ InFlightOn(inflight'[t].agent) = {}
                /\ tasks'[t].status = "running"
             \/ /\ t \notin DOMAIN inflight'
                /\ inflight' = inflight
                /\ returned'.task = t
                /\ InFlightOn(returned'.resp.agent_id) # {}
                /\ returned'.resp.confidence = 0
                /\ returned'.resp.reasoning = <<"Agent", "unavailable">>
                /\ tasks'[t].status = "pending"
                /\ task_queue' = task_queue
    ]_vars

\* C1 witness: two tasks were handed to one agent; one is in flight on it and
\* the other came back "Agent unavailable" and is still pending
C1_Witness ==
  /\ returned.task # 0
  /\ via[returned.task].path = "agent"
  /\ returned.resp.reasoning = <<"Agent", "unavailable">>
  /\ tasks[returned.task].status = "pending"
  /\ \E t \in InFlightOn(returned.resp.agent_id) : via[t].path = "agent"

\* C2: an agent's busy flag is set exactly while a task is in flight on it:
\* every process_task call that took the flag gives it back when it ends, by
\* return or by exception, and a rejected call leaves it alone.
C2_BusyFlagReleased ==
  \A a \in DOMAIN is_busy : is_busy[a] <=> InFlightOn(a) # {}

\* C2 witness: a process_task call ended by an exception of execute_task, the
\* agent has nothing in flight and its flag is false
C2_Witness ==
  /\ returned.task # 0
  /\ via[returned.task].path = "agent"
  /\ tasks[returned.task].status = "failed"
  /\ tasks[returned.task].error # None
  /\ "error" \in DOMAIN returned.resp.metadata
  /\ InFlightOn(returned.resp.agent_id) = {}
  /\ ~is_busy[returned.resp.agent_id]

\* the call that returned last ran the task against an agent, on the queued
\* or on the direct path
RanOnAgent ==
  /\ returned.task # 0
  /\ via[returned.task].path \in {"queued", "direct"}
  /\ returned.resp.agent_id \in DOMAIN is_busy

\* C3: a task run against an agent, through the queued dispatcher or through
\* execute_task, ends completed iff the returned confidence is > 0.5, and
\* failed otherwise.
C3_ConfidenceThreshold ==
  RanOnAgent =>
    /\ tasks[returned.task].status = "completed"
         <=> returned.resp.confidence > ConfidenceThreshold
    /\ tasks[returned.task].status = "failed"
         <=> returned.resp.confidence <= ConfidenceThreshold

\* every agent of the bucket is busy (trivially so for an empty bucket)
NoneFree(agent_type) ==
  \A i \in 1..Len(agent_types[agent_type]) : is_busy[agent_types[agent_type][i]]

\* C4: execute_task on a task whose capability type has no registered agent,
\* or only busy ones, returns an AgentResponse with confidence 0.0, the
\* reasoning "No agent available" and a response text that contains
\* "no available" when lower-cased; the task is handed to no agent.
C4_NoAgentAvailable ==
  [][ \A t \in NewTasks :
        (via'[t].path = "direct" /\ NoneFree(tasks'[t].agent_type)) =>
          /\ returned'.task = t
          /\ returned'.resp.confidence = 0
          /\ returned'.resp.reasoning = <<"No", "agent", "available">>
          /\ Contains(LowerText(returned'.resp.response), <<"no", "available">>)
          /\ returned'.resp.agent_type = tasks'[t].agent_type
          /\ inflight' = inflight
    ]_vars

\* C4 witness: execute_task answered "No agent available" while the agents of
\* the task's type were registered and all busy, and an agent of another type
\* was free
C4_Witness ==
  /\ returned.task # 0
  /\ via[returned.task].path = "direct"
  /\ returned.resp.reasoning = <<"No", "agent", "available">>
  /\ agent_types[tasks[returned.task].agent_type] # << >>
  /\ NoneFree(tasks[returned.task].agent_type)
  /\ \E ty \in MixedTypes : ~NoneFree(ty)

\* tasks that were put on the dispatcher's queue
Queued == {t \in DOMAIN tasks : via[t].path = "queued"}

\* the dispatchers that hold a permit: the task of each is with its agent, or
\* the permit was handed to it by a release() and it has yet to resume
PermitHolders == {d \in DOMAIN dispatcher : dispatcher[d].pc \in {"exec", "granted"}}

\* C5: of the tasks put on the queue, never more than the ceiling are running,
\* however many dispatchers consume the queue, and the admission permits are
\* all accounted for: a dispatcher holds one exactly while its dequeued task
\* is with an agent (or is about to be), and every other permit is back in
\* the semaphore.
C5_AdmissionBound ==
  /\ Cardinality({t \in Queued : tasks[t].status = "running"}) <= max_concurrent_tasks
  /\ semaphore >= 0
  /\ semaphore + Cardinality(PermitHolders) = max_concurrent_tasks

\* C5 witness: more tasks than the ceiling were queued and more dispatchers
\* than the ceiling consume the queue; as many tasks as the ceiling allows are
\* running, no permit is left, and a dispatcher that took the next task off
\* the queue waits for a permit with the task still pending, although an
\* agent of its type is free
C5_Witness ==
  /\ Cardinality(Queued) > max_concurrent_tasks
  /\ Len(dispatcher) > max_concurrent_tasks
  /\ Cardinality({t \in Queued : tasks[t].status = "running"}) = max_concurrent_tasks
  /\ semaphore = 0
  /\ \E d \in DOMAIN dispatcher :
        /\ dispatcher[d].pc = "acquire"
        /\ tasks[dispatcher[d].task].status = "pending"
        /\ GetAvailableAgent(Cur, tasks[dispatcher[d].task].agent_type) # NoAgent


\* ids of the steps declared before position i of the workflow of call r
EarlierIds(r, i) == {workflow[r][j].id : j \in 1..(i - 1)}

\* the execute_workflow call a step task belongs to, and its step
RunOf(t) == via[t].run

StepOf(t) == workflow[via[t].run][via[t].step]

\* the tasks the engine created for the workflow's steps
StepTasks == {t \in DOMAIN tasks : via[t].path = "step"}

\* C6: a step's task exists only when every id in the step's dependencies has
\* its entry in results; with steps A and B (B depending on A), B's task is
\* not created while A's completion is outstanding.
C6_DependencyOrder ==
  \A t \in StepTasks :
    StepOf(t).dependencies \subseteq DOMAIN results[RunOf(t)]

\* C6 witness: B, declared after A and depending on it, has its task with an
\* agent, and A's entry is in results
C6_Witness ==
  \E r \in DOMAIN workflow :
    /\ Len(workflow[r]) = 2
    /\ workflow[r][2].dependencies = {workflow[r][1].id}
    /\ workflow[r][1].id \in DOMAIN results[r]
    /\ \E t \in StepTasks : RunOf(t) = r /\ via[t].step = 2 /\ t \in DOMAIN inflight

\* C7: a low confidence never stops the engine: once a step's result is
\* stored the loop is past that step, the engine only ever waits for a
\* dependency that has no entry in results, and a returned record has status
\* completed and an entry for every step.
C7_LowConfidenceGoesOn ==
  \A r \in DOMAIN workflow :
    /\ \A i \in 1..Len(workflow[r]) :
         workflow[r][i].id \in DOMAIN results[r] => wf_i[r] > i
    /\ wf_pc[r] = "waiting" =>
         \E d \in workflow[r][wf_i[r]].dependencies : d \notin DOMAIN results[r]
    /\ wf_pc[r] = "returned" =>
         /\ wf_record[r].status = "completed"
         /\ DOMAIN wf_record[r].results =
              {workflow[r][i].id : i \in 1..Len(workflow[r])}

\* C7 witness: step A came back with confidence 0.0, step B depends on A, and
\* the returned record is completed with entries for both
C7_Witness ==
  \E r \in DOMAIN workflow :
    /\ wf_pc[r] = "returned"
    /\ wf_record[r].status = "completed"
    /\ Len(workflow[r]) = 2
    /\ workflow[r][1].id = "A"
    /\ workflow[r][2].dependencies = {"A"}
    /\ DOMAIN wf_record[r].results = {"A", "B"}
    /\ wf_record[r].results["A"].confidence = 0
    /\ wf_record[r].results["A"].reasoning # <<"No", "agent", "available">>

\* C8: the context of a step's task maps exactly the ids that are listed in
\* the step's context_keys and belong to steps executed before it to those
\* steps' response texts; for research A and analysis B with context_keys
\* [A], both answered by the stub, B's response is "A:" + "R".
C8_StepContext ==
  /\ \A t \in StepTasks :
       tasks[t].context =
         [k \in StepOf(t).context_keys \cap EarlierIds(RunOf(t), via[t].step)
            |-> results[RunOf(t)][k].response]
  /\ \A r \in DOMAIN workflow : \A i \in 1..Len(workflow[r]) :
       ( /\ workflow[r][i].id = "B"
         /\ "B" \in DOMAIN results[r]
         /\ results[r]["B"].reasoning = <<"stub">>
         /\ workflow[r][i].context_keys = {"A"}
         /\ "A" \in EarlierIds(r, i)
         /\ results[r]["A"].response = <<"R">> )
       => results[r]["B"].response = <<"A:", "R">>

\* C8 witness: the analysis step ran with context {A: "R"} and answered "A:R"
C8_Witness ==
  \E t \in StepTasks :
    /\ "B" \in DOMAIN results[RunOf(t)]
    /\ results[RunOf(t)]["B"].response = <<"A:", "R">>
    /\ StepOf(t).id = "B"
    /\ StepOf(t).context_keys = {"A"}
    /\ DOMAIN tasks[t].context = {"A"}
    /\ tasks[t].context["A"] = <<"R">>

\* the event loop runs every coroutine that is ready, and every completion
\* call returns
FairSpecWf ==
  /\ SpecWf
  /\ WF_vars(WaitPoll)
  /\ WF_vars(\E o \in WfOutcomes : StepReturns(1, o))
  /\ WF_vars(\E o \in WfOutcomes : SummaryReturns(1, o))
  /\ WF_vars(\E o \in SideOutcomes : StepReturns(2, o))
  /\ WF_vars(\E o \in SideOutcomes : SummaryReturns(2, o))
  /\ WF_vars(\E o \in SideOutcomes : DirectReturns(o))

\* C9: every execute_workflow call returns a record whose status is completed
\* or failed, whatever the dependencies of its steps name.
C9_WorkflowReturns ==
  \A r \in 1..2 :
    (r \in DOMAIN wf_pc) ~>
       /\ r \in DOMAIN wf_pc
       /\ wf_pc[r] = "returned"
       /\ wf_record[r].status \in {"completed", "failed"}

\* a task's status before a step (a task object is created pending)
StatusBefore(t) == IF t \in DOMAIN tasks THEN tasks[t].status ELSE "pending"

\* a pending task is processed in the step by an agent whose client session
\* is closed: process_task sets it running (ProcessTaskStart) and, with no
\* suspension in between, ends it, adding it to the agent's history or
\* leaving the error of the failed completion call on it
RanAtOnce(t) ==
  /\ StatusBefore(t) = "pending"
  /\ t \notin DOMAIN inflight'
  /\ \E a \in Closed(Cur) :
       /\ a[1] = tasks'[t].agent_type
       /\ ProcessTaskStart([Cur EXCEPT !.tasks = tasks'], a, t).tasks[t].status = "running"
       /\ \/ /\ \E i \in DOMAIN task_history'[a] : task_history'[a][i] = t
             /\ \A i \in DOMAIN task_history[a] : task_history[a][i] # t
          \/ tasks'[t].error = ConnectionError

\* C10: a task becomes terminal only from running (also when it is set running
\* and ended in one step, on a closed session), and never goes back to
\* pending or to running.
C10_LifecycleAsStated ==
  [][ \A t \in DOMAIN tasks' :
        /\ (tasks'[t].status \in Terminal /\ StatusBefore(t) \notin Terminal)
             => (StatusBefore(t) = "running" \/ RanAtOnce(t))
        /\ tasks'[t].status = "pending" => StatusBefore(t) = "pending"
        /\ tasks'[t].status = "running" => StatusBefore(t) \in {"pending", "running"}
    ]_vars

\* C11: once a task's status is terminal, no later step changes its status,
\* its result or its error.
C11_TerminalImmutable ==
  [][ \A t \in DOMAIN tasks :
        tasks[t].status \in Terminal =>
          /\ tasks'[t].status = tasks[t].status
          /\ tasks'[t].result = tasks[t].result
          /\ tasks'[t].error = tasks[t].error
    ]_vars

\* C12: when the agent's execute_task raises, process_task (called straight or
\* through execute_task) hands its caller an AgentResponse with confidence 0.0
\* whose metadata carries the error text, and leaves the task failed with
\* task.error equal to the stringified exception and no result.
C12_ExceptionSwallowed ==
  [][ \A e \in Errors :
        (AgentCallReturns(Raises(e)) \/ DirectReturns(Raises(e))) =>
          /\ returned'.task \in DOMAIN inflight
          /\ returned'.resp.confidence = 0
          /\ "error" \in DOMAIN returned'.resp.metadata
          /\ returned'.resp.metadata["error"] = e
          /\ Contains(returned'.resp.response, e)
          /\ tasks'[returned'.task].status = "failed"
          /\ tasks'[returned'.task].error = e
          /\ tasks'[returned'.task].result = None
    ]_vars

\* C12 witness: execute_task raised "timeout" under a direct execute_task call,
\* which came back with confidence 0.0 and the error text; the task is failed
C12_Witness ==
  /\ returned.task # 0
  /\ via[returned.task].path = "direct"
  /\ returned.resp.confidence = 0
  /\ "error" \in DOMAIN returned.resp.metadata
  /\ returned.resp.metadata["error"] = <<"timeout">>
  /\ tasks[returned.task].status = "failed"
  /\ tasks[returned.task].error = <<"timeout">>

\* --------------------------------------- research tasks on a failing service
\* the orchestrator's entry points with ResearchAgent as the agent of every
\* task, its completion calls succeeding or failing one by one
NextService ==
  \/ Startup
  \/ \E ty \in SubmittedTypes : Enqueue(ty)
  \/ DispatcherStart
  \/ DispatcherWake
  \/ \E calls \in ServiceCalls : QueuedReturns(ResearchExecuteTask(calls))
  \/ \E ty \in SubmittedTypes : SubmitDirect(ty, MaxTasks)
  \/ \E calls \in ServiceCalls : DirectReturns(ResearchExecuteTask(calls))

SpecService == Init /\ [][NextService]_vars

\* the completion service is down: every call of the task fails
AllFail == {calls \in ServiceCalls : \A i \in 1..4 : calls[i] # "content"}

\* C13: when the completion service fails while the research agent processes a
\* task, on the queued or on the direct path, the task ends failed and
\* task.error holds an error text.
C13_ServiceFailureFailsTask ==
  [][ \A calls \in AllFail :
        ( \/ QueuedReturns(ResearchExecuteTask(calls))
          \/ DirectReturns(ResearchExecuteTask(calls)) ) =>
          /\ tasks'[returned'.task].status = "failed"
          /\ tasks'[returned'.task].error # None
    ]_vars

\* ------------------------------------------- the queue with mixed task types
\* tasks of two capability types on the queue, consumed by the dispatcher of
\* every initialize call, beside direct execute_task calls of the same types
\* that keep agents busy
NextQueue ==
  \/ (WithinBudget /\ Initialize)
  \/ \E ty \in MixedTypes : WithinBudget /\ Enqueue(ty)
  \/ DispatcherStart
  \/ DispatcherWake
  \/ DispatcherGranted
  \/ \E o \in WfOutcomes : QueuedReturns(o)
  \/ \E ty \in MixedTypes : WithinBudget /\ SubmitDirect(ty, MaxTasks)
  \/ \E o \in SideOutcomes : DirectReturns(o)

SpecQueue == Init /\ [][NextQueue]_vars

\* the tasks waiting in the dispatcher's queue
Waiting == {task_queue[i] : i \in 1..Len(task_queue)}

\* the tasks dispatchers have taken off the queue and hold while they wait
\* for a permit, in the order of the semaphore's waiters
Parked == [i \in 1..Len(waiters) |-> dispatcher[waiters[i]].task]

ParkedTasks == {Parked[i] : i \in 1..Len(Parked)}

\* queued tasks whose processing has started
Admitted == Queued \ (Waiting \cup ParkedTasks)

\* C14: queued tasks are admitted in arrival order, whatever their types and
\* however many dispatchers consume the queue: the queue holds its tasks in
\* the order they were put (ids are given in that order), the tasks held back
\* for a permit were put before the tasks in the queue and are served in the
\* order they were put, all of them are pending, and no task's processing
\* has started while a task put before it still waits.
C14_FifoAdmission ==
  /\ \A i, j \in 1..Len(task_queue) : i < j => task_queue[i] < task_queue[j]
  /\ \A i, j \in 1..Len(Parked) : i < j => Parked[i] < Parked[j]
  /\ \A x \in ParkedTasks, y \in Waiting : x < y
  /\ \A t \in Waiting \cup ParkedTasks : t \in Queued /\ tasks[t].status = "pending"
  /\ \A x, y \in Queued : (x < y /\ y \in Admitted) => x \in Admitted

\* C14 witness: two dispatchers consume the queue; the task put first is
\* with its agent, and the task put second, of another type, was taken off
\* the queue by the other dispatcher, which waits for a permit with the task
\* still pending although agents of its type are free
C14_Witness ==
  \E x, y \in Queued :
    /\ x < y
    /\ tasks[x].agent_type # tasks[y].agent_type
    /\ x \in DOMAIN inflight
    /\ y \in ParkedTasks
    /\ tasks[y].status = "pending"
    /\ ~NoneFree(tasks[y].agent_type)

\* the tasks waiting in the queue after a step
WaitingNext == {task_queue'[i] : i \in 1..Len(task_queue')}

\* after a step, every agent of t's capability type is busy with a task other
\* than t (trivially so when the type has no agent)
NoAgentFor(t) ==
  \A i \in 1..Len(agent_types'[tasks[t].agent_type]) :
    LET a == agent_types'[tasks[t].agent_type][i]
    IN is_busy'[a] /\ t \notin InFlightOnNext(a)

\* the tasks held back for a permit after a step
ParkedNext == {dispatcher'[waiters'[i]].task : i \in 1..Len(waiters')}

\* the tasks a dispatcher starts _execute_single_task on in a step: it took
\* them off the queue and got a permit at once, or it resumes with the
\* permit it waited for
Dispatched == ((Waiting \ WaitingNext) \cup ParkedTasks) \ ParkedNext

\* C15: in the step in which a dispatcher that dequeued a task starts its
\* execution, the task is handed to an agent if one of its type is free; if
\* none is, the task is failed in that same step with the error "No available
\* <type> agent", without a result, without being parked with a dispatcher or
\* in active_tasks, and it is never handed to an agent, then or later.
C15_NoAgentFailsAtOnce ==
  [][ /\ \A t \in Dispatched :
           IF NoAgentFor(t)
           THEN /\ tasks'[t].status = "failed"
                /\ tasks'[t].error = NoAvailableText(tasks[t].agent_type)
                /\ tasks'[t].result = None
                /\ t \notin DOMAIN inflight'
                /\ t \notin active_tasks'
                /\ \A d \in DOMAIN dispatcher' : dispatcher'[d].task # t
           ELSE /\ t \in DOMAIN inflight'
                /\ tasks'[t].status = "running"
      /\ \A t \in Queued :
           tasks[t].error = NoAvailableText(tasks[t].agent_type)
             => t \notin DOMAIN inflight'
    ]_vars

\* C15 witness: a queued task failed for want of an agent while both agents of
\* its type were busy with direct calls and agents of the other type were
\* free; the dispatcher is back waiting on its queue
C15_Witness ==
  \E t \in Queued :
    /\ tasks[t].status = "failed"
    /\ tasks[t].error = NoAvailableText(tasks[t].agent_type)
    /\ agent_types[tasks[t].agent_type] # << >>
    /\ NoneFree(tasks[t].agent_type)
    /\ \E ty \in MixedTypes : ~NoneFree(ty)
    /\ t \notin active_tasks
    /\ \E d \in DOMAIN dispatcher : dispatcher[d].pc = "get"

\* --------------------------------------------- the dispatcher under fairness
\* tasks of one capability type on the queue, beside direct execute_task calls
\* that keep its agents busy
NextDispatch ==
  \/ (WithinBudget /\ Initialize)
  \/ \E ty \in SubmittedTypes : WithinBudget /\ Enqueue(ty)
  \/ DispatcherStart
  \/ DispatcherWake
  \/ DispatcherGranted
  \/ \E o \in WfOutcomes : QueuedReturns(o)
  \/ \E ty \in SubmittedTypes : WithinBudget /\ SubmitDirect(ty, MaxTasks)
  \/ \E o \in SideOutcomes : DirectReturns(o)

SpecDispatch == Init /\ [][NextDispatch]_vars

\* the event loop runs the dispatcher whenever it is ready, and every
\* completion call returns
FairSpecDispatch ==
  /\ SpecDispatch
  /\ WF_vars(DispatcherStart)
  /\ WF_vars(DispatcherWake)
  /\ WF_vars(DispatcherGranted)
  /\ WF_vars(\E o \in WfOutcomes : QueuedReturns(o))
  /\ WF_vars(\E o \in SideOutcomes : DirectReturns(o))

\* the tasks whose processing ends in a step: taken off the queue and not
\* handed to an agent, or coming back from their agent
EndsNow == (Dispatched \cup DOMAIN inflight) \ DOMAIN inflight'

\* C16: once a dispatcher has been started, every task put on the queue
\* reaches a terminal status, whatever happened to the tasks before it (low
\* confidence, an exception of the agent, no agent available): whatever was
\* queued so far, a state comes in which all of it is terminal; and a step
\* writes "failed" or an error only on tasks whose own processing ends in it.
C16_DispatcherSurvives ==
  /\ []<>(dispatcher = << >> \/ \A t \in Queued : tasks[t].status \in Terminal)
  /\ [][ \A t \in DOMAIN tasks :
           ( \/ (tasks'[t].status = "failed" /\ tasks[t].status # "failed")
             \/ tasks'[t].error # tasks[t].error )
             => t \in EndsNow
       ]_vars

\* C16 witness: of three queued tasks the first failed by an exception of its
\* agent, the second by a low confidence, and the third was still processed
\* and is completed; the dispatcher waits for more
C16_Witness ==
  \E x, y, z \in Queued :
    /\ x < y /\ y < z
    /\ tasks[x].status = "failed" /\ tasks[x].error # None
    /\ tasks[y].status = "failed" /\ tasks[y].error = None
    /\ tasks[z].status = "completed"
    /\ \A d \in DOMAIN dispatcher : dispatcher[d].pc = "get"

\* after a step, every research agent is busy with work other than the
\* summary of call r (trivially so when none is registered)
NoSummaryAgent(r) ==
  \A i \in 1..Len(agent_types'["research"]) :
    LET a == agent_types'["research"][i]
    IN is_busy'[a]
         /\ \A t \in InFlightOnNext(a) : ~(via'[t].path = "summary" /\ via'[t].run = r)

\* ids of all the steps of the workflow of call r after a step
AllStepIds(r) == {workflow'[r][i].id : i \in 1..Len(workflow'[r])}

\* where call r stands before a step ("idle": the call has not been made)
PcBefore(r) == IF r \in DOMAIN wf_pc THEN wf_pc[r] ELSE "idle"

\* C18: in the step in which the engine leaves its loop over the steps, it
\* asks a research agent for the summary if one is free; if none is, the call
\* returns at once a record with status completed, the results of all steps
\* and the static "summary unavailable" text, and no summary task is made.
\* When the summary agent comes back, whatever it answers, the record is
\* completed and holds all results.
C18_SummaryFallback ==
  [][ \A r \in DOMAIN wf_pc' :
        /\ (PcBefore(r) \in {"idle", "waiting", "step"}
               /\ wf_pc'[r] \in {"summary", "returned"}) =>
             IF NoSummaryAgent(r)
             THEN /\ wf_pc'[r] = "returned"
                  /\ wf_record'[r].status = "completed"
                  /\ wf_record'[r].summary = SummaryUnavailable
                  /\ wf_record'[r].results = results'[r]
                  /\ DOMAIN results'[r] = AllStepIds(r)
                  /\ \A t \in DOMAIN tasks' :
                       ~(via'[t].path = "summary" /\ via'[t].run = r)
             ELSE wf_pc'[r] = "summary"
        /\ (PcBefore(r) = "summary" /\ wf_pc'[r] = "returned") =>
             /\ wf_record'[r].status = "completed"
             /\ wf_record'[r].results = results'[r]
             /\ DOMAIN results'[r] = AllStepIds(r)
    ]_vars

\* C18 witness: the analysis step was answered with confidence 1.0, both
\* research agents were busy with other callers' tasks when the loop ended,
\* and the record is completed with both results and the static summary
C18_Witness ==
  \E r \in DOMAIN wf_pc :
    /\ wf_pc[r] = "returned"
    /\ wf_record[r].status = "completed"
    /\ wf_record[r].summary = SummaryUnavailable
    /\ agent_types["research"] # << >>
    /\ NoneFree("research")
    /\ DOMAIN wf_record[r].results = {"A", "B"}
    /\ wf_record[r].results["B"].confidence = 1000000

\* ------------------------------------------------- collaborative workflows
\* the lists of capability types a collaborative workflow is requested with:
\* any order, repetitions included
TypeLists == UNION {[1..n -> AgentTypes] : n \in 0..MaxRequested}

\* a caller awaits create_collaborative_workflow and then execute_workflow on
\* the Workflow it got
RunCollaborative(agent_types_in) ==
  StartWorkflow(EngineSteps(CreateCollaborativeWorkflow(agent_types_in)))

\* a first call with any list of types, and a second call, for one type,
\* made while the first executes
NextCollab ==
  \/ Startup
  \/ \E agent_types_in \in TypeLists : NoRun /\ RunCollaborative(agent_types_in)
  \/ \E ty \in AgentTypes : SecondCall /\ RunCollaborative(<<ty>>)
  \/ \E o \in AgentCallOutcomes : StepReturns(1, o)
  \/ \E o \in SideOutcomes : SummaryReturns(1, o)
  \/ \E o \in SideOutcomes : StepReturns(2, o)
  \/ \E o \in SideOutcomes : SummaryReturns(2, o)

SpecCollab == Init /\ [][NextCollab]_vars

\* position of a capability type in the canonical order
Position(ty) == CHOOSE i \in 1..Len(AgentType) : AgentType[i] = ty

\* the phase id of a capability type
PhaseOf(ty) ==
  CASE ty = "research" -> "research_phase"
    [] ty = "analyst" -> "analysis_phase"
    [] ty = "coding" -> "coding_phase"
    [] ty = "document" -> "documentation_phase"

\* what C19 asks of the steps made for a list of requested types
CollaborativeAsClaimed(agent_types_in, steps) ==
  /\ Len(steps) = Cardinality(Elements(agent_types_in))
  /\ {steps[i].agent_type : i \in 1..Len(steps)} = Elements(agent_types_in)
  /\ \A i, j \in 1..Len(steps) :
       i < j => Position(steps[i].agent_type) < Position(steps[j].agent_type)
  /\ \A i \in 1..Len(steps) :
       /\ steps[i].id = PhaseOf(steps[i].agent_type)
       /\ steps[i].dependencies = steps[i].context_keys
       /\ Elements(steps[i].dependencies) \subseteq {steps[j].id : j \in 1..(i - 1)}
       /\ \A d \in Elements(steps[i].dependencies) :
            \E ty \in Elements(agent_types_in) : d = PhaseOf(ty)

\* C19: for every list of requested capability types, the collaborative
\* workflow has one step per requested type in the order research, analysis,
\* coding, documentation; dependencies and context_keys of a step are the same
\* list, and name only steps of the workflow declared before it, all of them
\* phases of requested types.  (Only a step that begins a call is looked at,
\* and the steps the engine holds are compared first: a call with another
\* list of types cannot have made this step.)
C19_CollaborativeWorkflow ==
  [][ Len(workflow') > Len(workflow) =>
        \A agent_types_in \in TypeLists :
          ( /\ workflow' = Append(workflow,
                                 EngineSteps(CreateCollaborativeWorkflow(agent_types_in)))
            /\ RunCollaborative(agent_types_in) ) =>
            CollaborativeAsClaimed(agent_types_in,
                                   CreateCollaborativeWorkflow(agent_types_in))
    ]_vars

\* C19 witness: research was not requested; the coding and documentation
\* phases ran, coding depending on analysis alone and documentation on
\* analysis and coding, and the execution returned
C19_Witness ==
  \E r \in DOMAIN wf_pc :
    /\ wf_pc[r] = "returned"
    /\ Len(workflow[r]) = 3
    /\ workflow[r][1].id = "analysis_phase" /\ workflow[r][1].dependencies = {}
    /\ workflow[r][2].id = "coding_phase"
    /\ workflow[r][2].dependencies = {"analysis_phase"}
    /\ workflow[r][3].id = "documentation_phase"
    /\ workflow[r][3].context_keys = {"analysis_phase", "coding_phase"}
    /\ DOMAIN wf_record[r].results =
         {"analysis_phase", "coding_phase", "documentation_phase"}

\* C20: cleanup marks every task that is running cancelled, on whichever path
\* the task was started: after it no task that was in flight is still running.
C20_CleanupCancelsRunning ==
  [][ CleanupBegin =>
        \A t \in DOMAIN tasks :
          (tasks[t].status = "running" \/ t \in DOMAIN inflight)
            => tasks'[t].status = "cancelled"
    ]_vars

\* ------------------------------------------------------------------- C21
\* what a caller can observe of the shutdown: every task's status, the two
\* task collections and the initialized flag
Observed(s) ==
  [status |-> [t \in DOMAIN s.tasks |-> s.tasks[t].status],
   active_tasks |-> s.active_tasks,
   completed_tasks |-> s.completed_tasks,
   is_initialized |-> s.is_initialized]

RECURSIVE CleanupAlone(_, _)
\* the cleanup calls that are suspended in s run to their return, nothing
\* else running in between
CleanupAlone(s, yielding) ==
  IF s.cleanups = {} THEN s
  ELSE LET f == CHOOSE f \in s.cleanups : TRUE
       IN CleanupAlone(CleanupResumed(s, f, yielding), yielding)

\* one whole call of cleanup, from the call to its return (and to the return
\* of the calls it found suspended), whose await suspends at the sessions in
\* `yielding`
Cleanup(s, yielding) == CleanupAlone(CleanupCall(s, yielding), yielding)

\* C21: in every reachable state, a cleanup call followed by a second one
\* leaves every task's status, active_tasks, completed_tasks and
\* is_initialized as the first call left them, wherever the first call
\* suspends (it leaves no session open, so the second call has no close() to
\* wait for; the whole body of cleanup is inside try/except Exception, so
\* neither call raises)
C21_CleanupIdempotent ==
  \A yielding \in SUBSET OpenSessions :
    LET once == Cleanup(Cur, yielding)
    IN /\ OpenSessions \subseteq Closed(once)
       /\ Observed(Cleanup(once, yielding)) = Observed(once)

\* C21 witness: a cleanup call has returned after it cancelled a task that is
\* still in active_tasks (its agent has not answered) and closed a session;
\* the second call's loops run over that task and that session
C21_Witness ==
  /\ dispatcher # << >>
  /\ ~is_initialized
  /\ cleanups = {}
  /\ \E t \in active_tasks : tasks[t].status = "cancelled" /\ t \in DOMAIN inflight
  /\ Closed(Cur) # {}

\* ------------------------------------------------------------------- C22
\* the tasks agents are processing: started by the dispatcher, by direct
\* execute_task calls, by workflow steps or by the summary generation
Processing == {t \in DOMAIN inflight : via[t].path \in {"queued", "direct", "step", "summary"}}

\* C22: at every instant at most max_concurrent_tasks tasks are being
\* processed by agents, whichever path started them and whatever their types
C22_ConcurrencyCeiling == Cardinality(Processing) <= max_concurrent_tasks

\* ------------------------------------------------------------------- C23
\* the task a new pending task of type ty ends as when execute_task is run on
\* it in state s and the agent, if one takes it, answers with outcome o
DirectFinal(s, ty, o) ==
  LET t == FreshId(s)
      r == ExecuteTask(WithTask(s, ty, EmptyMap, "direct", 0, 0), t)
  IN IF r.done THEN r.st.tasks[t]
     ELSE RecordTask(ProcessTaskFinish(r.st, t, o), t).tasks[t]

\* the same task when _execute_single_task is run on it instead
QueuedFinal(s, ty, o) ==
  LET t == FreshId(s)
      r == ExecuteSingleTask(WithTask(s, ty, EmptyMap, "queued", 0, 0), t)
      resp == ProcessTaskResponse(r.st, t, o)
  IN IF r.done THEN r.st.tasks[t]
     ELSE ExecuteSingleTaskFinish(ProcessTaskFinish(r.st, t, o), t, resp).tasks[t]

\* C23: started in the same state of an initialized orchestrator on an
\* identical pending task, the direct path and the queued path leave the task
\* with the same status, result and error, whatever the agent answers
C23_SameFailureSemantics ==
  is_initialized =>
    \A ty \in SubmittedTypes, o \in Outcomes :
      LET d == DirectFinal(Cur, ty, o)
          q == QueuedFinal(Cur, ty, o)
      IN /\ d.status = q.status
         /\ d.result = q.result
         /\ d.error = q.error

\* ------------------------------------------------------------------- C24
\* C24: in every reachable state and for every capability type, the selection
\* answers "none" exactly when the type's bucket is empty or all its agents
\* are busy, and otherwise the agent of the bucket that is not busy and has
\* only busy agents before it in insertion order; the selection is a value
\* computed from the state and changes nothing in it
C24_FirstFreeAgent ==
  \A ty \in AgentTypes :
    LET bucket == agent_types[ty]
        a == GetAvailableAgent(Cur, ty)
    IN /\ (a = NoAgent) <=> (\A i \in 1..Len(bucket) : is_busy[bucket[i]])
       /\ a # NoAgent =>
            \E i \in 1..Len(bucket) :
              /\ bucket[i] = a
              /\ ~is_busy[a]
              /\ \A j \in 1..(i - 1) : is_busy[bucket[j]]

\* the selection has passed over a busy first agent: two direct tasks of one
\* type are in flight, the later one on the second agent of the bucket, while
\* the other type's first agent is free and is the one selected
C24_Witness ==
  /\ \E t, u \in DOMAIN inflight :
        /\ t < u
        /\ via[t].path = "direct" /\ via[u].path = "direct"
        /\ inflight[t].agent = agent_types["research"][1]
        /\ inflight[u].agent = agent_types["research"][2]
  /\ GetAvailableAgent(Cur, "research") = NoAgent
  /\ GetAvailableAgent(Cur, "analyst") = agent_types["analyst"][1]

\* ------------------------------------------------------------------- C25
\* the tasks in the completed log
Logged(log) == {log[i] : i \in DOMAIN log}

\* C25: a task that cleanup cancelled stays cancelled: no later step, the
\* return of its agent call included, changes its status or appends it to
\* completed_tasks
C25_CancelledStaysCancelled ==
  [][\A t \in DOMAIN tasks :
       tasks[t].status = "cancelled" =>
         /\ tasks'[t].status = "cancelled"
         /\ t \notin Logged(completed_tasks')]_vars

\* ------------------------------------------------------------------- C26
\* one caller at a time awaits execute_task on research and coding tasks, the
\* agents scoring results with every combination of indicator values
ScoredTypes == {"research", "coding"}

SubmitScored(ty) ==
  /\ inflight = EmptyMap
  /\ SubmitDirect(ty, MaxTasks)

ResearchReturns(ind, sources_count, findings_count) ==
  /\ DirectReturns(ResearchScored(ind, sources_count, findings_count))
  /\ tasks[returned'.task].agent_type = "research"

CodingReturns(ind) ==
  /\ DirectReturns(CodingExecuteTask(ind))
  /\ tasks[returned'.task].agent_type = "coding"

NextScored ==
  \/ Startup
  \/ \E ty \in ScoredTypes : SubmitScored(ty)
  \/ \E ind \in ResearchIndicators, n, m \in 0..MaxFindings : ResearchReturns(ind, n, m)
  \/ \E ind \in CodeIndicators : CodingReturns(ind)

SpecScored == Init /\ [][NextScored]_vars

\* C26: for every combination of indicator values, the confidence a research
\* or a coding agent computes for its result lies in [0, 1] when it is handed
\* to the AgentResponse: no agent returns from a result whose score lies outside
C26_ConfidenceInRange ==
  [][ /\ \A ind \in CodeIndicators :
           ~ValidConfidence(CalculateCodeConfidence(ind)) => ~CodingReturns(ind)
      /\ \A ind \in ResearchIndicators, n, m \in 0..MaxFindings :
           ~ValidConfidence(CalculateConfidence(AssessResearchQuality(ind), n, m))
             => ~ResearchReturns(ind, n, m)
    ]_vars

\* ------------------------------------------------------------------- C27
\* C27: within one execute_workflow run the step tasks are created in the
\* declared order of the steps and one at a time: when the task of a step
\* exists, every step declared before it has its result recorded, and at most
\* one step task is with an agent
C27_StepsOneAtATime ==
  /\ \A t, u \in StepTasks :
       (RunOf(t) = RunOf(u) /\ t < u) => via[t].step < via[u].step
  /\ \A t \in StepTasks :
       EarlierIds(RunOf(t), via[t].step) \subseteq DOMAIN results[RunOf(t)]
  /\ \A r \in DOMAIN wf_pc :
       Cardinality({t \in StepTasks \cap DOMAIN inflight : RunOf(t) = r}) <= 1

\* the second step of a call, which names no dependency, has its task with
\* an agent after the first step's task ran on an agent and its result was
\* recorded, while the step task of another call is with an agent too
C27_Witness ==
  \E r \in DOMAIN wf_pc :
    /\ Len(workflow[r]) = 2
    /\ workflow[r][2].dependencies = {}
    /\ \E t, u \in StepTasks :
          /\ RunOf(t) = r /\ RunOf(u) = r
          /\ via[t].step = 1 /\ via[u].step = 2
          /\ tasks[t].status = "completed"
          /\ u \in DOMAIN inflight
    /\ workflow[r][1].id \in DOMAIN results[r]
    /\ \E v \in StepTasks : RunOf(v) # r /\ v \in DOMAIN inflight

\* ------------------------------------------------------------------- C28
\* get_system_status: the counts it reports
GetSystemStatus(s) ==
  [is_initialized |-> s.is_initialized,
   total_agents |-> Cardinality(DOMAIN s.is_busy),
   active_tasks |-> Cardinality(s.active_tasks),
   completed_tasks |-> Len(s.completed_tasks)]

\* how many times task t is in the completed log
TimesLogged(log, t) == Cardinality({i \in DOMAIN log : log[i] = t})

\* queued tasks that are with an agent
QueuedInFlight == {t \in Queued : t \in DOMAIN inflight}

\* C28: whenever the coroutines are suspended, active_tasks holds exactly the
\* queued tasks that are with an agent, no task is both in active_tasks and in
\* completed_tasks, no queued task is in completed_tasks twice, and the
\* active count of get_system_status is the number of queued tasks in flight;
\* and the step in which a queued task's agent call ends is the one step that
\* appends it to completed_tasks
C28_TaskTracking ==
  /\ [](/\ active_tasks = QueuedInFlight
        /\ active_tasks \cap Logged(completed_tasks) = {}
        /\ \A t \in Queued : TimesLogged(completed_tasks, t) <= 1
        /\ GetSystemStatus(Cur).active_tasks = Cardinality(QueuedInFlight))
  /\ [][\A t \in Queued :
          TimesLogged(completed_tasks', t) =
            TimesLogged(completed_tasks, t)
              + (IF t \in DOMAIN inflight /\ t \notin DOMAIN inflight' THEN 1 ELSE 0)]_vars

\* one queued task has finished on its agent and is in the log, once, while
\* the next one is with an agent and tracked
C28_Witness ==
  \E t, u \in Queued :
    /\ TimesLogged(completed_tasks, t) = 1
    /\ t \notin active_tasks
    /\ u \in active_tasks
    /\ u \in DOMAIN inflight
    /\ GetSystemStatus(Cur).active_tasks = 1
    /\ GetSystemStatus(Cur).completed_tasks >= 1

\* ------------------------------------------------------------------- C29
\* every path on which the orchestrator hands tasks to agents, side by side:
\* the dispatcher, direct execute_task calls, a workflow's steps and its
\* summary, and beside them callers that hold an agent and call its
\* process_task themselves
PlainWorkflows ==
  {w \in Workflows :
     \A i \in 1..Len(w) : w[i].dependencies = {} /\ w[i].context_keys = {}}

\* at most MaxSideTasks tasks come in from outside the workflows, all of them
\* beside a single execute_workflow call
FewExternal == OneRun /\ Cardinality(External(Cur)) < MaxSideTasks

NextPaths ==
  \/ Startup
  \/ \E ty \in SubmittedTypes : FewExternal /\ Enqueue(ty)
  \/ DispatcherStart
  \/ DispatcherWake
  \/ \E o \in SideOutcomes : QueuedReturns(o)
  \/ \E ty \in SubmittedTypes : FewExternal /\ SubmitDirect(ty, MaxSideTasks)
  \/ \E o \in SideOutcomes : DirectReturns(o)
  \/ \E ty \in SubmittedTypes, i \in 1..AgentsPerType : FewExternal /\ CallAgent(<<ty, i>>)
  \/ \E o \in SideOutcomes : AgentCallReturns(o)
  \/ \E w \in PlainWorkflows : NoRun /\ StartWorkflow(w)
  \/ \E w \in SideWorkflows : SecondCall /\ StartWorkflow(w)
  \/ \E r \in 1..2, o \in SideOutcomes : StepReturns(r, o)
  \/ \E r \in 1..2, o \in SideOutcomes : SummaryReturns(r, o)

SpecPaths == Init /\ [][NextPaths]_vars

\* the paths of the orchestrator
OrchestratorPaths == {"queued", "direct", "step", "summary"}

\* C29: no call the orchestrator makes is ever answered "Agent unavailable":
\* not the response a direct or queued call returns, not the result the
\* dispatcher stores in a task, not a step's entry in results, not the summary
C29_UnavailableUnreachable ==
  /\ (returned.task # 0 /\ via[returned.task].path \in OrchestratorPaths)
        => returned.resp.reasoning # AgentUnavailable(returned.resp.agent_id).reasoning
  /\ \A t \in DOMAIN tasks :
        via[t].path \in OrchestratorPaths => tasks[t].result # BusyText
  /\ \A r \in DOMAIN wf_pc :
        /\ \A id \in DOMAIN results[r] :
              results[r][id].reasoning # <<"Agent", "unavailable">>
        /\ wf_pc[r] = "returned" => wf_record[r].summary # BusyText

\* the orchestrator's selection has passed over an agent that an outside
\* caller keeps busy: that caller's task is with the first research agent, a
\* task of the orchestrator is with the second, and another outside caller
\* was answered "Agent unavailable"
C29_Witness ==
  /\ \E t, u \in DOMAIN inflight :
        /\ via[t].path = "agent"
        /\ inflight[t].agent = agent_types["research"][1]
        /\ via[u].path \in OrchestratorPaths
        /\ inflight[u].agent = agent_types["research"][2]
  /\ returned.task # 0
  /\ via[returned.task].path = "agent"
  /\ returned.resp.reasoning = <<"Agent", "unavailable">>

====
